---- MODULE Spec2Model ----
(***************************************************************************)
(* newsbot: the store (articles, article_analysis), the enrichment loops,  *)
(* the retry sweep and the Telegram delivery of runPipeline and of the CLI *)
(* commands analyze / report / notify, as a state machine.                 *)
(*                                                                         *)
(* Time is counted in ticks since Go's zero time; a second is TicksPerSec  *)
(* ticks, so that the clock is finer than the RFC3339 strings the store    *)
(* compares.  An RFC3339 UTC string is represented by its whole-second     *)
(* count: on such strings SQLite's text comparison is the comparison of    *)
(* these counts.  SQL statements take effect as written (the driver does   *)
(* not fail); the model backend, the feeds and Telegram may fail freely.   *)
(***************************************************************************)
EXTENDS Integers, Sequences, FiniteSets, TLC

\* ---------------------------------------------------------------- bounds
\* Clock ticks per second.
TicksPerSec == 2
\* Number of items the upstream feeds offer.
MaxItems == 4
\* Largest LIMIT argument the ranked queries are examined with.
MaxLimit == 2
\* Largest number of analysed articles waiting for a digest.
MaxRows == 22
\* Largest number of further blogs, besides the two whose feeds are followed
\* item by item, that one ScrapeBlogs call is given.
MaxOthers == 10
\* Largest number of items of a feed below the cap of parseFeed.
MaxFeedItems == 3
\* Largest number of undelivered articles when two delivery stages overlap,
\* and the seconds that may pass while they run.
MaxBacklog == 2
MaxSeconds == 2
\* Longest time in seconds a network call is followed.
MaxWait == 121

\* Longest text splitMessage is examined on, and the chunk length it is given
\* (maxMessageLen is 4096 in Send).
MaxText == 7
SplitLen == 3

\* Longest string value in a reply of the model.
MaxValue == 2

\* The length truncate is given (500 in parseFeed).
SummaryLen == 3

\* Largest number of chunks of a digest.
MaxChunks == 2

\* Data rows in one download of hn-data.csv.
MaxCsvRows == 2

\* ------------------------------------------------------ program constants
maxRetries == 3
maxConcurrency == 10
maxArticles == 10
\* Timeouts of the http clients in seconds; 0 is the zero value of
\* http.Client.Timeout, which means no timeout.
httpTimeout == 15
modelTimeout == 120
telegramTimeout == 0
maxMessageLen == 4096
getTimeout == 0
UnnotifiedLimit == 20
FormatLimit == 20
AnalysesLimit == 1000
\* The limit runPipeline passes to FetchTopBlogs.
DiscoverLimit == 100

ZeroTime == 0

Second == TicksPerSec
Hour == 3600 * Second
\* The instant the process starts: a whole second, long after the zero time.
T0 == 400 * Hour
\* The default cron schedule "0 */6 * * *".
CronPeriod == 6 * Hour
\* How far the clock is followed.
Horizon == T0 + CronPeriod

NULL == <<>>

\* time.Time.UTC().Format(time.RFC3339): sub-second digits are dropped.
FormatRFC3339(t) == t \div Second

\* The driver's scan of such a string into a time.Time: the start of that second.
ParseRFC3339(s) == s * Second

\* CURRENT_TIMESTAMP of SQLite: the current second.
CurrentTimestamp(t) == <<t \div Second>>

VARIABLES
    now,          \* the wall clock, in ticks
    articles,     \* table articles: a set of rows
    analysis,     \* table article_analysis: a set of rows
    cmd,          \* the command that is running: "none", "run", "analyze"
    pc,           \* its position: "idle", "scrape", "analyze", "retry", "notify"
    window,       \* the window argument of the running command
    workers,      \* ScrapeBlogs: per blog, the articles its goroutine still has to save
    work,         \* the list the running loop still has to process (query snapshots)
    log,          \* the log lines and return values of the step just taken
    sumCalls,     \* ChatCompletion calls SummarizeArticle made in the step just taken
    sum,          \* SummarizeArticle run attempt by attempt: its loop state
    script,       \* ... and the replies the model backend gives to its attempts
    delivered,    \* per article id, the number of successfully sent digests holding it
    runsInRow,    \* completed runPipeline cycles in a row, nothing but time between them
    cycleKind,    \* how the latest cycle started: "fresh", "rerun" or "settled"
    scoreFailed,  \* ids whose ScoreArticle call failed in runPipeline, not scored since
    pool,         \* ScrapeBlogs with its semaphore: where each goroutine is
    feed,         \* scrapeBlog run location by location: its loop state
    called,       \* the calls the delivery stage made since the last command began
    flight,       \* delivery stages running at the same time: where each one is
    dropped,      \* ids an interrupted scoring loop had not reached, until a loop ends
    net,          \* the network call a cycle is blocked in, and for how long
    disc,         \* source discovery: table blogs and the latest download
    fn            \* a text function on its own: its input and its result

vars == <<now, articles, analysis, cmd, pc, window, workers, work,
          log, sumCalls, sum, script, delivered, runsInRow, cycleKind, scoreFailed, pool, feed, called, flight, dropped, net, disc, fn>>

\* ------------------------------------------------------------- the feeds
Blogs == {"a.example", "b.example"}
Items == 1..MaxItems

\* Published times of the first items: on the 24h boundary at T0, and leaving
\* the 7days window within one cron period; the further items give none.
PubTimes == << T0 - 24 * Hour, T0 - 168 * Hour + Hour >>

\* The last item republishes the first URL on another blog.
ItemURL(i) == IF i = MaxItems THEN 1 ELSE i
ItemBlog(i) == IF i = MaxItems THEN "b.example" ELSE "a.example"
ItemPublished(i) == IF i <= Len(PubTimes) THEN PubTimes[i] ELSE ZeroTime

\* parseFeed: one store.Article per feed item (ID and ScrapedAt unset).
parseFeed(i) ==
    [Title |-> i, URL |-> ItemURL(i), PublishedAt |-> ItemPublished(i)]

RECURSIVE FeedFrom(_, _)
FeedFrom(b, i) ==
    IF i > MaxItems THEN <<>>
    ELSE (IF ItemBlog(i) = b THEN <<parseFeed(i)>> ELSE <<>>) \o FeedFrom(b, i + 1)

\* scrapeBlog: the articles of the blog's feed, in feed order.
scrapeBlog(b) == FeedFrom(b, 1)

\* ------------------------------------------------------------- the store
URLs == {a.url : a \in articles}
ArticleIDs == {a.id : a \in articles}

\* A faulty variant of SaveArticle, INSERT OR REPLACE: the row of an existing
\* url takes the fields of the later call.
SaveArticleUpsert(rows, a) ==
    IF \E r \in rows : r.url = a.URL
    THEN [rows |-> {IF r.url = a.URL
                    THEN [r EXCEPT !.blog_domain = a.BlogDomain, !.title = a.Title,
                                   !.published_at = FormatRFC3339(a.PublishedAt)]
                    ELSE r : r \in rows},
          err |-> FALSE]
    ELSE [rows |-> rows \cup {[id |-> Cardinality(rows) + 1,
                               blog_domain |-> a.BlogDomain,
                               title |-> a.Title,
                               url |-> a.URL,
                               published_at |-> FormatRFC3339(a.PublishedAt)]},
          err |-> FALSE]

\* A faulty variant of SaveArticle, a plain INSERT: an existing url is a
\* UNIQUE constraint error.
SaveArticlePlainInsert(rows, a) ==
    IF \E r \in rows : r.url = a.URL
    THEN [rows |-> rows, err |-> TRUE]
    ELSE [rows |-> rows \cup {[id |-> Cardinality(rows) + 1,
                               blog_domain |-> a.BlogDomain,
                               title |-> a.Title,
                               url |-> a.URL,
                               published_at |-> FormatRFC3339(a.PublishedAt)]},
          err |-> FALSE]

\* INSERT OR IGNORE INTO articles ...: a row whose url exists is left alone.
SaveArticle(rows, a) ==
    IF \E r \in rows : r.url = a.URL
    THEN [rows |-> rows, err |-> FALSE]
    ELSE [rows |-> rows \cup {[id |-> Cardinality(rows) + 1,
                               blog_domain |-> a.BlogDomain,
                               title |-> a.Title,
                               url |-> a.URL,
                               published_at |-> FormatRFC3339(a.PublishedAt)]},
          err |-> FALSE]

\* A faulty variant of windowCutoff: an unknown window falls back to 24h.
windowCutoffDefault(w) ==
    IF w = "3days" THEN [err |-> FALSE, cutoff |-> FormatRFC3339(now - 72 * Hour)]
    ELSE IF w = "7days" THEN [err |-> FALSE, cutoff |-> FormatRFC3339(now - 168 * Hour)]
    ELSE [err |-> FALSE, cutoff |-> FormatRFC3339(now - 24 * Hour)]

\* windowCutoff: the cutoff string, or an error for an unknown window.
windowCutoff(w) ==
    IF w = "24h" THEN [err |-> FALSE, cutoff |-> FormatRFC3339(now - 24 * Hour)]
    ELSE IF w = "3days" THEN [err |-> FALSE, cutoff |-> FormatRFC3339(now - 72 * Hour)]
    ELSE IF w = "7days" THEN [err |-> FALSE, cutoff |-> FormatRFC3339(now - 168 * Hour)]
    ELSE [err |-> TRUE, cutoff |-> FormatRFC3339(ZeroTime)]

\* ORDER BY key DESC over <<key, id>> pairs; equal keys come in id order.
RECURSIVE OrderDesc(_)
OrderDesc(P) ==
    IF P = {} THEN <<>>
    ELSE LET best == CHOOSE p \in P :
                        \A q \in P : q[1] < p[1] \/ (q[1] = p[1] /\ q[2] >= p[2])
         IN  <<best[2]>> \o OrderDesc(P \ {best})

ArticleRow(id) == CHOOSE a \in articles : a.id = id
AnalysisRow(id) == CHOOSE r \in analysis : r.article_id = id
HasAnalysis(id) == \E r \in analysis : r.article_id = id

\* rows.Scan into store.Article.
ScanArticle(a) ==
    [ID |-> a.id, BlogDomain |-> a.blog_domain, Title |-> a.title, URL |-> a.url,
     PublishedAt |-> ParseRFC3339(a.published_at)]

\* rows.Scan into store.ArticleAnalysis: notified_at is not selected.
ScanAnalysis(r) ==
    [ArticleID |-> r.article_id, Relevance |-> r.relevance, Quality |-> r.quality,
     Timeliness |-> r.timeliness, TotalScore |-> r.total_score,
     Category |-> r.category, Keywords |-> r.keywords, AISummary |-> r.ai_summary,
     TitleCN |-> r.title_cn, RecommendReason |-> r.recommend_reason,
     AnalyzedAt |-> ParseRFC3339(r.analyzed_at)]

ScanJoined(id) ==
    [Article |-> ScanArticle(ArticleRow(id)),
     ArticleAnalysis |-> ScanAnalysis(AnalysisRow(id))]

\* A faulty variant of Take: the LIMIT is ignored.
TakeAll(s, n) == s

Take(s, n) == IF Len(s) <= n THEN s ELSE SubSeq(s, 1, n)
Min(a, b) == IF a <= b THEN a ELSE b
MapSeq(s, Op(_)) == [k \in 1..Len(s) |-> Op(s[k])]

\* A faulty variant of ArticlesByTimeWindow: WHERE published_at > ?
ArticlesByTimeWindowStrict(w) ==
    LET c == windowCutoff(w) IN
    IF c.err THEN [err |-> TRUE, rows |-> <<>>]
    ELSE [err |-> FALSE,
          rows |-> MapSeq(OrderDesc({<<a.published_at, a.id>> :
                              a \in {x \in articles : x.published_at > c.cutoff}}),
                          LAMBDA id : ScanArticle(ArticleRow(id)))]

\* SELECT ... FROM articles WHERE published_at >= ? ORDER BY published_at DESC
ArticlesByTimeWindow(w) ==
    LET c == windowCutoff(w) IN
    IF c.err THEN [err |-> TRUE, rows |-> <<>>]
    ELSE [err |-> FALSE,
          rows |-> MapSeq(OrderDesc({<<a.published_at, a.id>> :
                              a \in {x \in articles : x.published_at >= c.cutoff}}),
                          LAMBDA id : ScanArticle(ArticleRow(id)))]

\* ... LEFT JOIN article_analysis aa ... WHERE a.published_at >= ? AND aa.id IS NULL
UnanalyzedArticles(w) ==
    LET c == windowCutoff(w) IN
    IF c.err THEN [err |-> TRUE, rows |-> <<>>]
    ELSE [err |-> FALSE,
          rows |-> MapSeq(OrderDesc({<<a.published_at, a.id>> :
                              a \in {x \in articles : x.published_at >= c.cutoff
                                                      /\ ~HasAnalysis(x.id)}}),
                          LAMBDA id : ScanArticle(ArticleRow(id)))]

\* The article rows joined with their analysis rows, inside the cutoff.
Joined(cutoff) ==
    {a \in articles : a.published_at >= cutoff /\ HasAnalysis(a.id)}

\* ... WHERE a.published_at >= ? AND aa.total_score >= ? AND aa.ai_summary = ''
\*     ORDER BY aa.total_score DESC
UnsummarizedHighScoreArticles(w, minScore) ==
    LET c == windowCutoff(w) IN
    IF c.err THEN [err |-> TRUE, rows |-> <<>>]
    ELSE [err |-> FALSE,
          rows |-> MapSeq(OrderDesc({<<AnalysisRow(a.id).total_score, a.id>> :
                              a \in {x \in Joined(c.cutoff) :
                                        /\ AnalysisRow(x.id).total_score >= minScore
                                        /\ AnalysisRow(x.id).ai_summary = ""}}),
                          ScanJoined)]

\* ... WHERE a.published_at >= ? ORDER BY aa.total_score DESC LIMIT ?
TopScoredArticles(limit, w) ==
    LET c == windowCutoff(w) IN
    IF c.err THEN [err |-> TRUE, rows |-> <<>>]
    ELSE [err |-> FALSE,
          rows |-> MapSeq(Take(OrderDesc({<<AnalysisRow(a.id).total_score, a.id>> :
                                   a \in Joined(c.cutoff)}), limit),
                          ScanJoined)]

AnalysesByTimeWindow(w) == TopScoredArticles(AnalysesLimit, w)

\* A faulty variant of UnnotifiedAnalyses: the notified_at IS NULL condition
\* is missing.
UnnotifiedAnalysesNoFilter(w) ==
    LET c == windowCutoff(w) IN
    IF c.err THEN [err |-> TRUE, rows |-> <<>>]
    ELSE [err |-> FALSE,
          rows |-> MapSeq(Take(OrderDesc({<<AnalysisRow(a.id).total_score, a.id>> :
                                   a \in Joined(c.cutoff)}),
                               UnnotifiedLimit),
                          ScanJoined)]

\* A faulty variant of UnnotifiedAnalyses: only summarized articles are
\* selected (AND aa.ai_summary != '').
UnnotifiedAnalysesSummarized(w) ==
    LET c == windowCutoff(w) IN
    IF c.err THEN [err |-> TRUE, rows |-> <<>>]
    ELSE [err |-> FALSE,
          rows |-> MapSeq(Take(OrderDesc({<<AnalysisRow(a.id).total_score, a.id>> :
                                   a \in {x \in Joined(c.cutoff) :
                                             /\ AnalysisRow(x.id).notified_at = NULL
                                             /\ AnalysisRow(x.id).ai_summary # ""}}),
                               UnnotifiedLimit),
                          ScanJoined)]

\* ... WHERE a.published_at >= ? AND aa.notified_at IS NULL
\*     ORDER BY aa.total_score DESC LIMIT 20
UnnotifiedAnalyses(w) ==
    LET c == windowCutoff(w) IN
    IF c.err THEN [err |-> TRUE, rows |-> <<>>]
    ELSE [err |-> FALSE,
          rows |-> MapSeq(Take(OrderDesc({<<AnalysisRow(a.id).total_score, a.id>> :
                                   a \in {x \in Joined(c.cutoff) :
                                             AnalysisRow(x.id).notified_at = NULL}}),
                               UnnotifiedLimit),
                          ScanJoined)]

\* A faulty variant of SaveArticleAnalysis, INSERT OR REPLACE: the new row
\* takes the column default of notified_at, NULL.
SaveArticleAnalysisReplace(rows, a) ==
    {r \in rows : r.article_id # a.ArticleID}
    \cup {[article_id |-> a.ArticleID, relevance |-> a.Relevance,
            quality |-> a.Quality, timeliness |-> a.Timeliness,
            total_score |-> a.TotalScore, category |-> a.Category,
            keywords |-> a.Keywords, ai_summary |-> a.AISummary,
            title_cn |-> a.TitleCN, recommend_reason |-> a.RecommendReason,
            analyzed_at |-> FormatRFC3339(a.AnalyzedAt), notified_at |-> NULL]}

\* A faulty variant of SaveArticleAnalysis: an empty ai_summary, title_cn or
\* recommend_reason does not replace a stored one.
SaveArticleAnalysisMerge(rows, a) ==
    LET Keep(new, old) == IF new = "" THEN old ELSE new
        Row(o) == [article_id |-> a.ArticleID, relevance |-> a.Relevance,
                   quality |-> a.Quality, timeliness |-> a.Timeliness,
                   total_score |-> a.TotalScore, category |-> a.Category,
                   keywords |-> a.Keywords,
                   ai_summary |-> Keep(a.AISummary, o.ai_summary),
                   title_cn |-> Keep(a.TitleCN, o.title_cn),
                   recommend_reason |-> Keep(a.RecommendReason, o.recommend_reason),
                   analyzed_at |-> FormatRFC3339(a.AnalyzedAt),
                   notified_at |-> o.notified_at]
    IN  IF \E r \in rows : r.article_id = a.ArticleID
        THEN {IF r.article_id = a.ArticleID THEN Row(r) ELSE r : r \in rows}
        ELSE rows \cup {Row([ai_summary |-> "", title_cn |-> "", recommend_reason |-> "",
                             notified_at |-> NULL])}

\* A faulty variant of SaveArticleAnalysis: a plain INSERT, without the
\* conflict clause and the UNIQUE constraint behind it.
SaveArticleAnalysisInsert(rows, a) ==
    rows \cup {[article_id |-> a.ArticleID, relevance |-> a.Relevance,
                quality |-> a.Quality, timeliness |-> a.Timeliness,
                total_score |-> a.TotalScore, category |-> a.Category,
                keywords |-> a.Keywords, ai_summary |-> a.AISummary,
                title_cn |-> a.TitleCN, recommend_reason |-> a.RecommendReason,
                analyzed_at |-> FormatRFC3339(a.AnalyzedAt), notified_at |-> NULL]}

\* INSERT INTO article_analysis ... ON CONFLICT(article_id) DO UPDATE SET
\* <every content column> = excluded.<column>; notified_at is not in the list.
SaveArticleAnalysis(rows, a) ==
    LET content == [article_id |-> a.ArticleID, relevance |-> a.Relevance,
                    quality |-> a.Quality, timeliness |-> a.Timeliness,
                    total_score |-> a.TotalScore, category |-> a.Category,
                    keywords |-> a.Keywords, ai_summary |-> a.AISummary,
                    title_cn |-> a.TitleCN, recommend_reason |-> a.RecommendReason,
                    analyzed_at |-> FormatRFC3339(a.AnalyzedAt)]
        Row(n) == [article_id |-> content.article_id, relevance |-> content.relevance,
                   quality |-> content.quality, timeliness |-> content.timeliness,
                   total_score |-> content.total_score, category |-> content.category,
                   keywords |-> content.keywords, ai_summary |-> content.ai_summary,
                   title_cn |-> content.title_cn,
                   recommend_reason |-> content.recommend_reason,
                   analyzed_at |-> content.analyzed_at, notified_at |-> n]
    IN  IF \E r \in rows : r.article_id = a.ArticleID
        THEN {IF r.article_id = a.ArticleID THEN Row(r.notified_at) ELSE r : r \in rows}
        ELSE rows \cup {Row(NULL)}

\* A faulty variant of MarkNotified: the UPDATE matches no row.
MarkNotifiedNothing(rows, ids) == rows

\* UPDATE article_analysis SET notified_at = CURRENT_TIMESTAMP WHERE article_id IN (...)
MarkNotified(rows, ids) ==
    IF ids = {} THEN rows
    ELSE {IF r.article_id \in ids
          THEN [r EXCEPT !.notified_at = CurrentTimestamp(now)] ELSE r : r \in rows}

\* ------------------------------------------------------ the model backend
\* What one ChatCompletion call gives: a transport or HTTP error, a text that
\* is not JSON after cleaning, or JSON that unmarshals into the result struct.
NoScore == [Relevance |-> 0, Quality |-> 0, Timeliness |-> 0,
            Category |-> "", Keywords |-> <<>>]
ScoreChoices ==
    { [Relevance |-> 9, Quality |-> 8, Timeliness |-> 7,
       Category |-> "AI/ML", Keywords |-> <<"llm", "gpu">>],
      [Relevance |-> -5, Quality |-> 1, Timeliness |-> 1,
       Category |-> "Web", Keywords |-> <<>>] }
ScoreReplies ==
    {[kind |-> "error", v |-> NoScore], [kind |-> "garbage", v |-> NoScore]}
    \cup {[kind |-> "json", v |-> c] : c \in ScoreChoices}

NoSummary == [Summary |-> "", TitleCN |-> "", RecommendReason |-> ""]
SummaryChoices ==
    { [Summary |-> "S1", TitleCN |-> "T1", RecommendReason |-> "R1"], NoSummary }
SummaryReplies ==
    {[kind |-> "error", v |-> NoSummary], [kind |-> "garbage", v |-> NoSummary]}
    \cup {[kind |-> "json", v |-> c] : c \in SummaryChoices}
\* The replies to the attempts of one SummarizeArticle call.
SummaryScripts == [1..maxRetries -> SummaryReplies]
\* ... of which the pipeline is run on those that fail n times in one way and
\* then succeed (no reply after the first success is ever read).
PipelineScripts ==
    {r \in SummaryScripts :
        \E n \in 0..maxRetries, bad \in {"error", "garbage"} :
           \A k \in 1..maxRetries :
              IF k <= n THEN r[k].kind = bad
              ELSE r[k] = [kind |-> "json", v |-> CHOOSE c \in SummaryChoices : c # NoSummary]}

\* ScoreArticle: one call; a call error and a parse error both fail.
ScoreArticle(reply) ==
    IF reply.kind = "error" THEN [err |-> TRUE, result |-> NoScore]
    ELSE IF reply.kind = "garbage" THEN [err |-> TRUE, result |-> NoScore]
    ELSE [err |-> FALSE, result |-> reply.v]

\* SummarizeArticle, the loop state before the first attempt.
SummarizeInit ==
    [attempt |-> 1, calls |-> 0, returned |-> FALSE, err |-> FALSE,
     result |-> NoSummary]

\* One pass of the loop body: the call, then continue or return the result.
SummarizeAttempt(s, reply) ==
    IF reply.kind = "error" THEN [s EXCEPT !.calls = @ + 1, !.attempt = @ + 1]
    ELSE IF reply.kind = "garbage" THEN [s EXCEPT !.calls = @ + 1, !.attempt = @ + 1]
    ELSE [s EXCEPT !.calls = @ + 1, !.returned = TRUE, !.result = reply.v]

\* A faulty variant of the loop condition: attempt < maxRetries.
SummarizeContinuesShort(s) == ~s.returned /\ s.attempt < maxRetries

\* The loop condition attempt <= maxRetries.
SummarizeContinues(s) == ~s.returned /\ s.attempt <= maxRetries

\* Leaving the loop without a result: "failed after 3 attempts".
SummarizeGiveUp(s) == [s EXCEPT !.returned = TRUE, !.err = TRUE]

RECURSIVE SummarizeRun(_, _)
SummarizeRun(s, replies) ==
    IF s.returned THEN s
    ELSE IF SummarizeContinues(s)
         THEN SummarizeRun(SummarizeAttempt(s, replies[s.attempt]), replies)
         ELSE SummarizeGiveUp(s)

SummarizeArticle(replies) == SummarizeRun(SummarizeInit, replies)

\* ------------------------------------------------------ the enrichment
\* The body of the scoring loop (runPipeline step 3; cmdAnalyze has the same).
\* strings.Join(elems, sep), the result kept as its list of pieces.
RECURSIVE Join(_, _)
Join(elems, sep) ==
    IF Len(elems) <= 1 THEN elems
    ELSE <<Head(elems), sep>> \o Join(Tail(elems), sep)

\* A faulty variant of totalScore: the timeliness is left out of the sum.
totalScoreTwo(scoreResult) == scoreResult.Relevance + scoreResult.Quality

\* totalScore := scoreResult.Relevance + scoreResult.Quality + scoreResult.Timeliness
totalScore(scoreResult) ==
    scoreResult.Relevance + scoreResult.Quality + scoreResult.Timeliness

\* The loop body after a successful ScoreArticle: build the row, summarize, save.
EnrichScored(rows, article, scoreResult, replies) ==
    LET scored == [ArticleID |-> article.ID,
                   Relevance |-> scoreResult.Relevance,
                   Quality |-> scoreResult.Quality,
                   Timeliness |-> scoreResult.Timeliness,
                   TotalScore |-> totalScore(scoreResult),
                   Category |-> scoreResult.Category,
                   Keywords |-> Join(scoreResult.Keywords, ", "),
                   AISummary |-> "", TitleCN |-> "", RecommendReason |-> "",
                   AnalyzedAt |-> now]
        s == SummarizeArticle(replies)
        a == IF s.err THEN scored
             ELSE [scored EXCEPT !.AISummary = s.result.Summary,
                                 !.TitleCN = s.result.TitleCN,
                                 !.RecommendReason = s.result.RecommendReason]
    IN  [rows |-> SaveArticleAnalysis(rows, a),
         log |-> IF s.err THEN {"WARNING: summarize"} ELSE {},
         calls |-> s.calls]

\* A faulty variant of the loop body: the continue after a failed ScoreArticle
\* is missing, and the zero-valued result goes on to be summarized and saved.
AnalyzeItemNoContinue(rows, article, sr, replies) ==
    LET score == ScoreArticle(sr)
        res == EnrichScored(rows, article, score.result, replies)
    IN  IF score.err THEN [res EXCEPT !.log = {"WARNING: score"}] ELSE res

\* The loop body: a failed ScoreArticle is logged and the item is skipped.
AnalyzeItem(rows, article, sr, replies) ==
    LET score == ScoreArticle(sr) IN
    IF score.err
    THEN [rows |-> rows, log |-> {"WARNING: score"}, calls |-> 0]
    ELSE EnrichScored(rows, article, score.result, replies)

\* A faulty variant of the retry sweep: the row is stamped with the time of
\* the retry.
RetryItemRestamp(rows, item, replies) ==
    LET s == SummarizeArticle(replies) IN
    IF s.err
    THEN [rows |-> rows, log |-> {"WARNING: retry summarize"}, calls |-> s.calls]
    ELSE [rows |-> SaveArticleAnalysis(rows,
                     [item.ArticleAnalysis EXCEPT
                         !.AISummary = s.result.Summary,
                         !.TitleCN = s.result.TitleCN,
                         !.RecommendReason = s.result.RecommendReason,
                         !.AnalyzedAt = now]),
          log |-> {}, calls |-> s.calls]

\* The body of the retry sweep (runPipeline step 3b; cmdAnalyze has the same).
RetryItem(rows, item, replies) ==
    LET s == SummarizeArticle(replies) IN
    IF s.err
    THEN [rows |-> rows, log |-> {"WARNING: retry summarize"}, calls |-> s.calls]
    ELSE [rows |-> SaveArticleAnalysis(rows,
                     [item.ArticleAnalysis EXCEPT
                         !.AISummary = s.result.Summary,
                         !.TitleCN = s.result.TitleCN,
                         !.RecommendReason = s.result.RecommendReason]),
          log |-> {}, calls |-> s.calls]

\* ------------------------------------------------------ the delivery
\* A faulty variant of FormatReport: the digest lists ten articles.
FormatReportTen(list) == Take(list, 10)

\* FormatReport: the articles that get an entry in the digest, the first
\* FormatLimit of the list it is given.
FormatReport(list) == Take(list, FormatLimit)

\* The calls one run of the delivery stage makes, in their order: who ran it,
\* how many articles UnnotifiedAnalyses returned, which call failed ("" for
\* none), and the calls made.
Calls(by, found, failed, made) ==
    [by |-> by, found |-> found, failed |-> failed, made |-> made]

\* No delivery stage has run.
NoCalls == Calls("", 0, "", <<>>)

ArticleIDsOf(list) == {list[k].ID : k \in 1..Len(list)}
IDsOf(list) == {list[k].Article.ID : k \in 1..Len(list)}

\* A faulty variant of runPipeline step 4: the items are marked before the
\* digest is sent, so a failed Send leaves them marked.
PipelineNotifyMarkFirst(rows, trendsOk, sendOk) ==
    LET newArticles == UnnotifiedAnalyses("7days") IN
         IF newArticles.err
         THEN [rows |-> rows, log |-> {"WARNING: get unnotified"}, sent |-> {},
               calls |-> Calls("runPipeline", 0, "UnnotifiedAnalyses", <<"UnnotifiedAnalyses">>)]
         ELSE IF Len(newArticles.rows) = 0
         THEN [rows |-> rows, log |-> {"no new articles"}, sent |-> {},
               calls |-> Calls("runPipeline", 0, "", <<"UnnotifiedAnalyses">>)]
         ELSE IF ~trendsOk
         THEN [rows |-> rows, log |-> {"WARNING: trend analysis"}, sent |-> {},
               calls |-> Calls("runPipeline", Len(newArticles.rows), "AnalyzeTrends", <<"UnnotifiedAnalyses", "AnalyzeTrends">>)]
         ELSE IF ~sendOk
         THEN [rows |-> MarkNotified(rows, IDsOf(newArticles.rows)),
               log |-> {"WARNING: telegram send"}, sent |-> {},
               calls |-> Calls("runPipeline", Len(newArticles.rows), "Send", <<"UnnotifiedAnalyses", "AnalyzeTrends", "MarkNotified", "Send">>)]
         ELSE [rows |-> MarkNotified(rows, IDsOf(newArticles.rows)),
               log |-> {"notified"}, sent |-> IDsOf(newArticles.rows),
               calls |-> Calls("runPipeline", Len(newArticles.rows), "", <<"UnnotifiedAnalyses", "AnalyzeTrends", "MarkNotified", "Send">>)]

\* A faulty variant of runPipeline step 4: the trends are aggregated before the
\* undelivered set is looked at.
PipelineNotifyTrendsFirst(rows, trendsOk, sendOk) ==
    LET newArticles == UnnotifiedAnalyses("7days") IN
         IF newArticles.err
         THEN [rows |-> rows, log |-> {"WARNING: get unnotified"}, sent |-> {},
               calls |-> Calls("runPipeline", 0, "UnnotifiedAnalyses", <<"UnnotifiedAnalyses">>)]
         ELSE IF ~trendsOk
         THEN [rows |-> rows, log |-> {"WARNING: trend analysis"}, sent |-> {},
               calls |-> Calls("runPipeline", Len(newArticles.rows), "AnalyzeTrends", <<"UnnotifiedAnalyses", "AnalyzeTrends">>)]
         ELSE IF Len(newArticles.rows) = 0
         THEN [rows |-> rows, log |-> {"no new articles"}, sent |-> {},
               calls |-> Calls("runPipeline", 0, "", <<"UnnotifiedAnalyses", "AnalyzeTrends">>)]
         ELSE IF ~sendOk
         THEN [rows |-> rows, log |-> {"WARNING: telegram send"}, sent |-> {},
               calls |-> Calls("runPipeline", Len(newArticles.rows), "Send", <<"UnnotifiedAnalyses", "AnalyzeTrends", "Send">>)]
         ELSE [rows |-> MarkNotified(rows, IDsOf(newArticles.rows)),
               log |-> {"notified"}, sent |-> IDsOf(newArticles.rows),
               calls |-> Calls("runPipeline", Len(newArticles.rows), "", <<"UnnotifiedAnalyses", "AnalyzeTrends", "Send", "MarkNotified">>)]

\* runPipeline step 4: select, aggregate trends, send, mark.
PipelineNotify(rows, trendsOk, sendOk) ==
    LET newArticles == UnnotifiedAnalyses("7days") IN
         IF newArticles.err
         THEN [rows |-> rows, log |-> {"WARNING: get unnotified"}, sent |-> {},
               calls |-> Calls("runPipeline", 0, "UnnotifiedAnalyses", <<"UnnotifiedAnalyses">>)]
         ELSE IF Len(newArticles.rows) = 0
         THEN [rows |-> rows, log |-> {"no new articles"}, sent |-> {},
               calls |-> Calls("runPipeline", 0, "", <<"UnnotifiedAnalyses">>)]
         ELSE IF ~trendsOk
         THEN [rows |-> rows, log |-> {"WARNING: trend analysis"}, sent |-> {},
               calls |-> Calls("runPipeline", Len(newArticles.rows), "AnalyzeTrends", <<"UnnotifiedAnalyses", "AnalyzeTrends">>)]
         ELSE IF ~sendOk
         THEN [rows |-> rows, log |-> {"WARNING: telegram send"}, sent |-> {},
               calls |-> Calls("runPipeline", Len(newArticles.rows), "Send", <<"UnnotifiedAnalyses", "AnalyzeTrends", "Send">>)]
         ELSE [rows |-> MarkNotified(rows, IDsOf(newArticles.rows)),
               log |-> {"notified"}, sent |-> IDsOf(FormatReport(newArticles.rows)),
               calls |-> Calls("runPipeline", Len(newArticles.rows), "", <<"UnnotifiedAnalyses", "AnalyzeTrends", "Send", "MarkNotified">>)]

\* cmdNotify: every failure is fatal; the marking follows a successful Send.
cmdNotify(rows, w, trendsOk, sendOk) ==
    LET newArticles == UnnotifiedAnalyses(w) IN
         IF newArticles.err
         THEN [rows |-> rows, log |-> {"FATAL: get unnotified"}, sent |-> {},
               calls |-> Calls("cmdNotify", 0, "UnnotifiedAnalyses", <<"UnnotifiedAnalyses">>)]
         ELSE IF Len(newArticles.rows) = 0
         THEN [rows |-> rows, log |-> {"no new articles"}, sent |-> {},
               calls |-> Calls("cmdNotify", 0, "", <<"UnnotifiedAnalyses">>)]
         ELSE IF ~trendsOk
         THEN [rows |-> rows, log |-> {"FATAL: trend analysis"}, sent |-> {},
               calls |-> Calls("cmdNotify", Len(newArticles.rows), "AnalyzeTrends", <<"UnnotifiedAnalyses", "AnalyzeTrends">>)]
         ELSE IF ~sendOk
         THEN [rows |-> rows, log |-> {"FATAL: telegram send"}, sent |-> {},
               calls |-> Calls("cmdNotify", Len(newArticles.rows), "Send", <<"UnnotifiedAnalyses", "AnalyzeTrends", "Send">>)]
         ELSE [rows |-> MarkNotified(rows, IDsOf(newArticles.rows)),
               log |-> {"notified"}, sent |-> IDsOf(newArticles.rows),
               calls |-> Calls("cmdNotify", Len(newArticles.rows), "", <<"UnnotifiedAnalyses", "AnalyzeTrends", "Send", "MarkNotified">>)]

\* cmdReport: the report of all analyses, then the digest of the unnotified ones.
cmdReport(rows, w, trendsOk, sendOk) ==
    LET analyses == AnalysesByTimeWindow(w) IN
    IF analyses.err \/ Len(analyses.rows) = 0
    THEN [rows |-> rows, log |-> {"FATAL: no analyses"}, sent |-> {},
               calls |-> Calls("cmdReport", 0, "AnalysesByTimeWindow", <<"AnalysesByTimeWindow">>)]
    ELSE IF ~trendsOk
    THEN [rows |-> rows, log |-> {"FATAL: trend analysis"}, sent |-> {},
               calls |-> Calls("cmdReport", 0, "AnalyzeTrends", <<"AnalysesByTimeWindow", "AnalyzeTrends">>)]
    ELSE LET newArticles == UnnotifiedAnalyses(w) IN
         IF newArticles.err
         THEN [rows |-> rows, log |-> {"WARNING: get unnotified"}, sent |-> {},
               calls |-> Calls("cmdReport", 0, "UnnotifiedAnalyses", <<"AnalysesByTimeWindow", "AnalyzeTrends", "UnnotifiedAnalyses">>)]
         ELSE IF Len(newArticles.rows) = 0
         THEN [rows |-> rows, log |-> {"no new articles"}, sent |-> {},
               calls |-> Calls("cmdReport", 0, "", <<"AnalysesByTimeWindow", "AnalyzeTrends", "UnnotifiedAnalyses">>)]
         ELSE IF ~sendOk
         THEN [rows |-> rows, log |-> {"WARNING: telegram send"}, sent |-> {},
               calls |-> Calls("cmdReport", Len(newArticles.rows), "Send", <<"AnalysesByTimeWindow", "AnalyzeTrends", "UnnotifiedAnalyses", "Send">>)]
         ELSE [rows |-> MarkNotified(rows, IDsOf(newArticles.rows)),
               log |-> {"notified"}, sent |-> IDsOf(newArticles.rows),
               calls |-> Calls("cmdReport", Len(newArticles.rows), "", <<"AnalysesByTimeWindow", "AnalyzeTrends", "UnnotifiedAnalyses", "Send", "MarkNotified">>)]

\* ------------------------------------------- ScrapeBlogs and its semaphore
\* One goroutine per blog: "go" (started, before sem <- struct{}{}), "fetch"
\* (holds a slot, scrapeBlog is running), "save" (holds a slot, in the
\* SaveArticle loop), "done" (slot released, wg.Done called).  The goroutines
\* of the further blogs, whose sites are down, are interchangeable and are
\* counted per position.  res is what scrapeBlog returned to the goroutine,
\* saveFailed the <<blog, url>> whose SaveArticle call returned an error.
PoolIdle ==
    [at |-> [b \in Blogs |-> "done"], res |-> [b \in Blogs |-> "none"],
     others |-> [go |-> 0, in |-> 0, done |-> 0], saveFailed |-> {}]

\* The goroutines that hold a slot of the semaphore.
Inside ==
    Cardinality({b \in Blogs : pool.at[b] \in {"fetch", "save"}}) + pool.others.in

\* A faulty variant of SlotFree: the send on sem never blocks.
SlotFreeAlways == TRUE

\* sem <- struct{}{} on a channel of capacity maxConcurrency can proceed.
SlotFree == Inside < maxConcurrency

\* A faulty variant of AllDone: ScrapeBlogs does not wait for its goroutines.
AllDoneNoWait == TRUE

\* The WaitGroup counter is zero.
AllDone ==
    /\ \A b \in Blogs : pool.at[b] = "done"
    /\ pool.others.go = 0
    /\ pool.others.in = 0

\* A faulty variant of ScrapeBlogsErr: a failed blog or save fails the call.
ScrapeBlogsErrOnFailure ==
    \/ \E b \in Blogs : pool.res[b] = "down"
    \/ pool.others.done > 0
    \/ pool.saveFailed # {}

\* The value ScrapeBlogs returns is nil, whatever its goroutines met.
ScrapeBlogsErr == FALSE

\* ------------------------------------------- scrapeBlog, location by location
feedPaths ==
    <<"/feed", "/rss", "/atom.xml", "/feed.xml", "/rss.xml", "/index.xml",
      "/feeds/all.atom.xml">>

\* The urls scrapeBlog asks for, in its order: the feed paths, then the root.
Locations(domain) ==
    [k \in 1..Len(feedPaths) + 1 |->
        IF k <= Len(feedPaths) THEN <<"https://", domain, feedPaths[k]>>
        ELSE <<"https://", domain>>]

\* What a location answers to one request: a failure of the request, its
\* timeout, or a feed of n items (n = 0: a feed without items).
Answers ==
    {[kind |-> "error", n |-> 0], [kind |-> "timeout", n |-> 0]}
        \cup {[kind |-> "feed", n |-> n] : n \in 0..MaxFeedItems}
        \cup {[kind |-> "feed", n |-> maxArticles + 1]}

\* The article parseFeed makes of item i of a feed.
FeedArticle(i) == [Title |-> i, URL |-> i, PublishedAt |-> T0]

\* A faulty variant of parseFeed: every item of the feed is returned.
parseFeedUncapped(o) ==
    IF o.kind # "feed" THEN [err |-> TRUE, articles |-> <<>>]
    ELSE [err |-> FALSE, articles |-> [i \in 1..o.n |-> FeedArticle(i)]]

\* parseFeed on a location that answers o: an error, or the articles of the
\* first maxArticles items.
parseFeedOf(o) ==
    IF o.kind # "feed" THEN [err |-> TRUE, articles |-> <<>>]
    ELSE [err |-> FALSE,
          articles |-> [i \in 1..Min(o.n, maxArticles) |-> FeedArticle(i)]]

\* A faulty variant of Accepted: a feed without items is taken.
AcceptedEmpty(res) == ~res.err

\* scrapeBlog: err == nil && len(articles) > 0
Accepted(res) == ~res.err /\ Len(res.articles) > 0

\* scrapeBlog before its first location is tried.
FeedIdle ==
    [state |-> "idle", domain |-> "", next |-> 1, tried |-> <<>>,
     got |-> <<>>, todo |-> <<>>, before |-> {}]

\* The runs of the delivery stage that may overlap: the cron scheduler starts
\* each runPipeline in a goroutine of its own, and newsbot notify is a process
\* of its own.
Runs == {"first", "second"}

\* No delivery stage is running on its own.
NoFlight == [p \in Runs |-> [at |-> "idle", list |-> <<>>]]

\* No text function is being examined.
NoText == [name |-> "", in |-> <<>>, out |-> <<>>, done |-> FALSE]

\* Table blogs is empty and nothing has been downloaded.
NoDiscovery ==
    [blogs |-> {}, csv |-> <<>>, meta |-> <<>>, fetched |-> <<>>, saved |-> FALSE]

\* No network call is being followed.
NetIdle == [stage |-> "done", open |-> FALSE, waited |-> 0, cancelled |-> FALSE]

\* ------------------------------------------------------ the state machine
Windows == {"24h", "3days", "7days"}
\* What a user may type as the window argument.
WindowArgs == Windows \cup {"1h"}

Init ==
    /\ now = T0
    /\ articles = {}
    /\ analysis = {}
    /\ cmd = "none"
    /\ pc = "idle"
    /\ window = ""
    /\ workers = [b \in Blogs |-> <<>>]
    /\ work = <<>>
    /\ log = {}
    /\ sumCalls = 0
    /\ sum = SummarizeInit
    /\ script = <<>>
    /\ delivered = [i \in Items |-> 0]
    /\ runsInRow = 0
    /\ cycleKind = "fresh"
    /\ scoreFailed = {}
    /\ called = NoCalls
    /\ flight = NoFlight
    /\ dropped = {}
    /\ net = NetIdle
    /\ disc = NoDiscovery
    /\ fn = NoText
    /\ pool = PoolIdle
    /\ feed = FeedIdle

\* Time passes: by a cron period between two commands, or by one tick off a
\* whole second (the clock is sampled on a second boundary and a fraction of a
\* second later).
Tick ==
    /\ \E step \in {1, CronPeriod} :
          /\ step = 1 => now % Second = 0
          /\ step = CronPeriod => pc = "idle"
          /\ now + step <= Horizon
          /\ now' = now + step
    /\ UNCHANGED <<articles, analysis, cmd, pc, window, workers, work, log, sumCalls, sum, script, delivered, runsInRow, cycleKind, scoreFailed, pool, feed, called, flight, dropped, net, disc, fn>>

\* No feed item is new to the store.
NoNewData == \A i \in Items : ItemURL(i) \in URLs

\* Work the next cycle would find in its 7days window.
PendingWork ==
    \/ Len(UnanalyzedArticles("7days").rows) > 0
    \/ Len(UnsummarizedHighScoreArticles("7days", 0).rows) > 0
    \/ Len(UnnotifiedAnalyses("7days").rows) > 0

\* runPipeline steps 1 and 2, up to the start of the harvest workers: a failed
\* source discovery ends the cycle; a blog whose retrieval fails saves nothing.
StartPipeline ==
    /\ pc = "idle"
    /\ \E fetchOk \in BOOLEAN, feedOk \in [Blogs -> BOOLEAN] :
          IF ~fetchOk
          THEN /\ log' = {"ERROR: fetch blogs"}
               /\ runsInRow' = 0
               /\ UNCHANGED <<cmd, pc, workers, cycleKind>>
          ELSE /\ cmd' = "run"
               /\ pc' = "scrape"
               /\ workers' = [b \in Blogs |-> IF feedOk[b] THEN scrapeBlog(b) ELSE <<>>]
               /\ log' = {"WARN: scrape"} \cap {IF \A b \in Blogs : feedOk[b]
                                                 THEN "" ELSE "WARN: scrape"}
               /\ cycleKind' = IF runsInRow >= 1 /\ NoNewData
                               THEN (IF PendingWork THEN "rerun" ELSE "settled")
                               ELSE "fresh"
               /\ UNCHANGED runsInRow
    /\ sumCalls' = 0
    /\ called' = NoCalls
    /\ UNCHANGED <<now, articles, analysis, window, work, sum, script, delivered, scoreFailed, pool, feed, flight, dropped, net, disc, fn>>

\* ScrapeBlogs: the goroutine of blog b saves its next article.
SaveStep(b) ==
    /\ pc = "scrape"
    /\ workers[b] # <<>>
    /\ LET a == Head(workers[b])
           res == SaveArticle(articles,
                     [BlogDomain |-> b, Title |-> a.Title, URL |-> a.URL,
                      PublishedAt |-> a.PublishedAt])
       IN  /\ articles' = res.rows
           /\ log' = IF res.err THEN {"WARN: save article"} ELSE {}
    /\ workers' = [workers EXCEPT ![b] = Tail(@)]
    /\ UNCHANGED <<now, analysis, cmd, pc, window, work, sumCalls, sum, script, delivered, runsInRow, cycleKind, scoreFailed, pool, feed, called, flight, dropped, net, disc, fn>>

\* wg.Wait() returns; runPipeline step 3 reads the unanalyzed articles.
ScrapeDone ==
    /\ pc = "scrape"
    /\ \A b \in Blogs : workers[b] = <<>>
    /\ pc' = "analyze"
    /\ work' = UnanalyzedArticles("7days").rows
    /\ log' = {}
    /\ UNCHANGED <<now, articles, analysis, cmd, window, workers, sumCalls, sum, script, delivered, runsInRow, cycleKind, scoreFailed, pool, feed, called, flight, dropped, net, disc, fn>>

\* cmdAnalyze: every article of the window is scored again.
StartAnalyze ==
    /\ pc = "idle"
    /\ \E w \in WindowArgs :
          LET q == ArticlesByTimeWindow(w) IN
          IF q.err \/ Len(q.rows) = 0
          THEN /\ log' = {"FATAL: no articles"}
               /\ UNCHANGED <<cmd, pc, window, work>>
          ELSE /\ cmd' = "analyze"
               /\ pc' = "analyze"
               /\ window' = w
               /\ work' = q.rows
               /\ log' = {}
    /\ runsInRow' = 0
    /\ cycleKind' = "fresh"
    /\ sumCalls' = 0
    /\ called' = NoCalls
    /\ UNCHANGED <<now, articles, analysis, workers, sum, script, delivered, scoreFailed, pool, feed, flight, dropped, net, disc, fn>>

\* One pass of the scoring loop.
AnalyzeStep ==
    /\ pc = "analyze"
    /\ work # <<>>
    /\ \E sr \in ScoreReplies, replies \in PipelineScripts :
          LET res == AnalyzeItem(analysis, Head(work), sr, replies) IN
          /\ analysis' = res.rows
          /\ log' = res.log
          /\ sumCalls' = res.calls
          /\ scoreFailed' = IF ~ScoreArticle(sr).err THEN scoreFailed \ {Head(work).ID}
                             ELSE IF cmd = "run" THEN scoreFailed \cup {Head(work).ID}
                             ELSE scoreFailed
    /\ work' = Tail(work)
    /\ UNCHANGED <<now, articles, cmd, pc, window, workers, sum, script, delivered, runsInRow, cycleKind, pool, feed, called, flight, dropped, net, disc, fn>>

\* The scoring loop is over; the retry sweep reads its list.
AnalyzeDone ==
    /\ pc = "analyze"
    /\ work = <<>>
    /\ pc' = "retry"
    /\ work' = UnsummarizedHighScoreArticles(IF cmd = "run" THEN "7days" ELSE window,
                                             0).rows
    /\ log' = {}
    /\ sumCalls' = 0
    /\ dropped' = {}
    /\ UNCHANGED <<now, articles, analysis, cmd, window, workers, sum, script, delivered, runsInRow, cycleKind, scoreFailed, pool, feed, called, flight, net, disc, fn>>

\* One pass of the retry sweep.
RetryStep ==
    /\ pc = "retry"
    /\ work # <<>>
    /\ \E replies \in PipelineScripts :
          LET res == RetryItem(analysis, Head(work), replies) IN
          /\ analysis' = res.rows
          /\ log' = res.log
          /\ sumCalls' = res.calls
    /\ work' = Tail(work)
    /\ UNCHANGED <<now, articles, cmd, pc, window, workers, sum, script, delivered, runsInRow, cycleKind, scoreFailed, pool, feed, called, flight, dropped, net, disc, fn>>

\* The sweep is over: runPipeline goes on to step 4, cmdAnalyze returns.
RetryDone ==
    /\ pc = "retry"
    /\ work = <<>>
    /\ IF cmd = "run"
       THEN pc' = "notify" /\ UNCHANGED <<cmd, window>>
       ELSE pc' = "idle" /\ cmd' = "none" /\ window' = ""
    /\ log' = {}
    /\ sumCalls' = 0
    /\ UNCHANGED <<now, articles, analysis, workers, work, sum, script, delivered, runsInRow, cycleKind, scoreFailed, pool, feed, called, flight, dropped, net, disc, fn>>

Deliver(res) ==
    /\ analysis' = res.rows
    /\ log' = res.log
    /\ called' = res.calls
    /\ delivered' = [i \in Items |-> IF i \in res.sent THEN delivered[i] + 1
                                     ELSE delivered[i]]

\* runPipeline step 4, and the end of the cycle.
NotifyStep ==
    /\ pc = "notify"
    /\ \E trendsOk \in BOOLEAN, sendOk \in BOOLEAN :
          Deliver(PipelineNotify(analysis, trendsOk, sendOk))
    /\ pc' = "idle"
    /\ cmd' = "none"
    /\ runsInRow' = Min(runsInRow + 1, 2)
    /\ UNCHANGED <<now, articles, window, workers, work, sumCalls, sum, script, cycleKind, scoreFailed, pool, feed, flight, dropped, net, disc, fn>>

\* newsbot notify <window>
RunNotify ==
    /\ pc = "idle"
    /\ \E w \in WindowArgs, trendsOk \in BOOLEAN, sendOk \in BOOLEAN :
          Deliver(cmdNotify(analysis, w, trendsOk, sendOk))
    /\ runsInRow' = 0
    /\ UNCHANGED <<now, articles, cmd, pc, window, workers, work, sumCalls, sum, script, cycleKind, scoreFailed, pool, feed, flight, dropped, net, disc, fn>>

\* newsbot report <window>
RunReport ==
    /\ pc = "idle"
    /\ \E w \in WindowArgs, trendsOk \in BOOLEAN, sendOk \in BOOLEAN :
          Deliver(cmdReport(analysis, w, trendsOk, sendOk))
    /\ runsInRow' = 0
    /\ UNCHANGED <<now, articles, cmd, pc, window, workers, work, sumCalls, sum, script, cycleKind, scoreFailed, pool, feed, flight, dropped, net, disc, fn>>

Next ==
    \/ Tick
    \/ StartPipeline
    \/ \E b \in Blogs : SaveStep(b)
    \/ ScrapeDone
    \/ StartAnalyze
    \/ AnalyzeStep
    \/ AnalyzeDone
    \/ RetryStep
    \/ RetryDone
    \/ NotifyStep
    \/ RunNotify
    \/ RunReport

Spec == Init /\ [][Next]_vars

\* ---------------------------------------- SummarizeArticle, attempt by attempt
InitSummarize ==
    /\ now = T0
    /\ articles = {}
    /\ analysis = {}
    /\ cmd = "none"
    /\ pc = "idle"
    /\ window = ""
    /\ workers = [b \in Blogs |-> <<>>]
    /\ work = <<>>
    /\ log = {}
    /\ sumCalls = 0
    /\ sum = SummarizeInit
    /\ script \in SummaryScripts
    /\ delivered = [i \in Items |-> 0]
    /\ runsInRow = 0
    /\ cycleKind = "fresh"
    /\ scoreFailed = {}
    /\ called = NoCalls
    /\ flight = NoFlight
    /\ dropped = {}
    /\ net = NetIdle
    /\ disc = NoDiscovery
    /\ fn = NoText
    /\ pool = PoolIdle
    /\ feed = FeedIdle

\* The loop makes its next ChatCompletion call.
SummarizeCall ==
    /\ SummarizeContinues(sum)
    /\ sum' = SummarizeAttempt(sum, script[sum.attempt])
    /\ UNCHANGED <<now, articles, analysis, cmd, pc, window, workers, work, log, sumCalls, script, delivered, runsInRow, cycleKind, scoreFailed, pool, feed, called, flight, dropped, net, disc, fn>>

\* The loop ends without a result.
SummarizeFail ==
    /\ ~sum.returned
    /\ ~SummarizeContinues(sum)
    /\ sum' = SummarizeGiveUp(sum)
    /\ UNCHANGED <<now, articles, analysis, cmd, pc, window, workers, work, log, sumCalls, script, delivered, runsInRow, cycleKind, scoreFailed, pool, feed, called, flight, dropped, net, disc, fn>>

NextSummarize == SummarizeCall \/ SummarizeFail

SpecSummarize == InitSummarize /\ [][NextSummarize]_vars

\* ------------------------------- the notify and report commands on a backlog
\* A backlog of n scored and summarized articles, none notified: two in three
\* published a day ago, the third four days ago; the sub-scores are in 1..10
\* and vary with the pattern k.
BacklogArticle(i) ==
    [id |-> i, blog_domain |-> "a.example", title |-> i, url |-> i,
     published_at |-> FormatRFC3339(IF i % 3 = 0 THEN T0 - 100 * Hour
                                    ELSE T0 - 24 * Hour)]
BacklogAnalysis(i, k) ==
    [article_id |-> i, relevance |-> 1 + ((i * k) % 10), quality |-> 5,
     timeliness |-> 1 + (i % 2), total_score |-> 1 + ((i * k) % 10) + 5 + 1 + (i % 2),
     category |-> "AI/ML", keywords |-> <<"llm">>, ai_summary |-> "S1",
     title_cn |-> "T1", recommend_reason |-> "R1",
     analyzed_at |-> FormatRFC3339(T0), notified_at |-> NULL]

InitDigest ==
    /\ now = T0
    /\ \E n \in 0..MaxRows, k \in 1..3 :
          /\ articles = {BacklogArticle(i) : i \in 1..n}
          /\ analysis = {BacklogAnalysis(i, k) : i \in 1..n}
    /\ cmd = "none"
    /\ pc = "idle"
    /\ window = ""
    /\ workers = [b \in Blogs |-> <<>>]
    /\ work = <<>>
    /\ log = {}
    /\ sumCalls = 0
    /\ sum = SummarizeInit
    /\ script = <<>>
    /\ delivered = [i \in Items |-> 0]
    /\ runsInRow = 0
    /\ cycleKind = "fresh"
    /\ scoreFailed = {}
    /\ called = NoCalls
    /\ flight = NoFlight
    /\ dropped = {}
    /\ net = NetIdle
    /\ disc = NoDiscovery
    /\ fn = NoText
    /\ pool = PoolIdle
    /\ feed = FeedIdle

NextDigest == Tick \/ RunNotify \/ RunReport

SpecDigest == InitDigest /\ [][NextDigest]_vars

\* runPipeline has reached step 4 with the backlog in the store.
InitCycleDigest ==
    /\ now = T0
    /\ \E n \in 0..MaxRows, k \in 1..3 :
          /\ articles = {BacklogArticle(i) : i \in 1..n}
          /\ analysis = {BacklogAnalysis(i, k) : i \in 1..n}
    /\ cmd = "run"
    /\ pc = "notify"
    /\ window = ""
    /\ workers = [b \in Blogs |-> <<>>]
    /\ work = <<>>
    /\ log = {}
    /\ sumCalls = 0
    /\ sum = SummarizeInit
    /\ script = <<>>
    /\ delivered = [i \in Items |-> 0]
    /\ runsInRow = 0
    /\ cycleKind = "fresh"
    /\ scoreFailed = {}
    /\ called = NoCalls
    /\ flight = NoFlight
    /\ dropped = {}
    /\ net = NetIdle
    /\ disc = NoDiscovery
    /\ fn = NoText
    /\ pool = PoolIdle
    /\ feed = FeedIdle

NextCycleDigest == NotifyStep

SpecCycleDigest == InitCycleDigest /\ [][NextCycleDigest]_vars

\* ------------------------------------------- ScrapeBlogs, goroutine by goroutine
\* runPipeline has started the goroutines of a ScrapeBlogs call on an empty store.
InitScrape ==
    /\ now = T0
    /\ articles = {}
    /\ analysis = {}
    /\ cmd = "run"
    /\ pc = "scrape"
    /\ window = ""
    /\ workers = [b \in Blogs |-> <<>>]
    /\ work = <<>>
    /\ log = {}
    /\ sumCalls = 0
    /\ sum = SummarizeInit
    /\ script = <<>>
    /\ delivered = [i \in Items |-> 0]
    /\ runsInRow = 0
    /\ cycleKind = "fresh"
    /\ scoreFailed = {}
    /\ called = NoCalls
    /\ flight = NoFlight
    /\ dropped = {}
    /\ net = NetIdle
    /\ disc = NoDiscovery
    /\ fn = NoText
    /\ \E n \in 0..MaxOthers :
          pool = [at |-> [b \in Blogs |-> "go"], res |-> [b \in Blogs |-> "none"],
                  others |-> [go |-> n, in |-> 0, done |-> 0], saveFailed |-> {}]
    /\ feed = FeedIdle

\* The goroutine of blog b gets a slot.
Acquire(b) ==
    /\ pc = "scrape"
    /\ pool.at[b] = "go"
    /\ SlotFree
    /\ pool' = [pool EXCEPT !.at[b] = "fetch"]
    /\ UNCHANGED <<now, articles, analysis, cmd, pc, window, workers, work, log, sumCalls, sum, script, delivered, runsInRow, cycleKind, scoreFailed, feed, called, flight, dropped, net, disc, fn>>

\* The goroutine of one of the further blogs gets a slot.
AcquireOther ==
    /\ pc = "scrape"
    /\ pool.others.go > 0
    /\ SlotFree
    /\ pool' = [pool EXCEPT !.others.go = @ - 1, !.others.in = @ + 1]
    /\ UNCHANGED <<now, articles, analysis, cmd, pc, window, workers, work, log, sumCalls, sum, script, delivered, runsInRow, cycleKind, scoreFailed, feed, called, flight, dropped, net, disc, fn>>

\* scrapeBlog returns to the goroutine of blog b: its articles, or an error,
\* on which the goroutine logs and returns (releasing its slot).
Retrieve(b) ==
    /\ pc = "scrape"
    /\ pool.at[b] = "fetch"
    /\ \E feedOk \in BOOLEAN :
          IF feedOk
          THEN /\ workers' = [workers EXCEPT ![b] = scrapeBlog(b)]
               /\ pool' = [pool EXCEPT !.at[b] = "save", !.res[b] = "ok"]
               /\ log' = {}
          ELSE /\ pool' = [pool EXCEPT !.at[b] = "done", !.res[b] = "down"]
               /\ log' = {"WARN: scrape"}
               /\ UNCHANGED workers
    /\ UNCHANGED <<now, articles, analysis, cmd, pc, window, work, sumCalls, sum, script, delivered, runsInRow, cycleKind, scoreFailed, feed, called, flight, dropped, net, disc, fn>>

\* The goroutine of blog b calls SaveArticle for its next article; an error of
\* the database is logged and the loop goes on.
SaveNext(b) ==
    /\ pc = "scrape"
    /\ pool.at[b] = "save"
    /\ workers[b] # <<>>
    /\ \E dbOk \in BOOLEAN :
          LET a == Head(workers[b])
              res == SaveArticle(articles,
                        [BlogDomain |-> b, Title |-> a.Title, URL |-> a.URL,
                         PublishedAt |-> a.PublishedAt])
          IN  IF dbOk /\ ~res.err
              THEN /\ articles' = res.rows
                   /\ log' = {}
                   /\ UNCHANGED pool
              ELSE /\ log' = {"WARN: save article"}
                   /\ pool' = [pool EXCEPT !.saveFailed = @ \cup {<<b, a.URL>>}]
                   /\ UNCHANGED articles
    /\ workers' = [workers EXCEPT ![b] = Tail(@)]
    /\ UNCHANGED <<now, analysis, cmd, pc, window, work, sumCalls, sum, script, delivered, runsInRow, cycleKind, scoreFailed, feed, called, flight, dropped, net, disc, fn>>

\* The goroutine of blog b has saved its last article and returns.
Leave(b) ==
    /\ pc = "scrape"
    /\ pool.at[b] = "save"
    /\ workers[b] = <<>>
    /\ pool' = [pool EXCEPT !.at[b] = "done"]
    /\ log' = {"Scraped"}
    /\ UNCHANGED <<now, articles, analysis, cmd, pc, window, workers, work, sumCalls, sum, script, delivered, runsInRow, cycleKind, scoreFailed, feed, called, flight, dropped, net, disc, fn>>

\* scrapeBlog fails for one of the further blogs; its goroutine returns.
LeaveOther ==
    /\ pc = "scrape"
    /\ pool.others.in > 0
    /\ pool' = [pool EXCEPT !.others.in = @ - 1, !.others.done = @ + 1]
    /\ log' = {"WARN: scrape"}
    /\ UNCHANGED <<now, articles, analysis, cmd, pc, window, workers, work, sumCalls, sum, script, delivered, runsInRow, cycleKind, scoreFailed, feed, called, flight, dropped, net, disc, fn>>

\* wg.Wait() returns, ScrapeBlogs returns, and runPipeline reads the
\* unanalyzed articles.
ScrapeReturns ==
    /\ pc = "scrape"
    /\ AllDone
    /\ pc' = "analyze"
    /\ work' = UnanalyzedArticles("7days").rows
    /\ log' = IF ScrapeBlogsErr THEN {"ERROR: scrape"} ELSE {}
    /\ UNCHANGED <<now, articles, analysis, cmd, window, workers, sumCalls, sum, script, delivered, runsInRow, cycleKind, scoreFailed, pool, feed, called, flight, dropped, net, disc, fn>>

NextScrape ==
    \/ \E b \in Blogs : Acquire(b)
    \/ AcquireOther
    \/ \E b \in Blogs : Retrieve(b)
    \/ \E b \in Blogs : SaveNext(b)
    \/ \E b \in Blogs : Leave(b)
    \/ LeaveOther
    \/ ScrapeReturns

SpecScrape == InitScrape /\ [][NextScrape]_vars

\* ------------------------------------------- one blog, location by location
\* The goroutine of one blog is about to call scrapeBlog; the store is empty
\* or holds one article of another blog with the url of the feed's first item.
InitFeed ==
    /\ now = T0
    /\ \E old \in BOOLEAN :
          /\ articles = IF old
                        THEN SaveArticle({}, [BlogDomain |-> "a.example", Title |-> 1,
                                              URL |-> 1, PublishedAt |-> T0]).rows
                        ELSE {}
          /\ feed = [FeedIdle EXCEPT !.state = "try", !.domain = "b.example",
                                     !.before = IF old THEN {1} ELSE {}]
    /\ analysis = {}
    /\ cmd = "run"
    /\ pc = "scrape"
    /\ window = ""
    /\ workers = [b \in Blogs |-> <<>>]
    /\ work = <<>>
    /\ log = {}
    /\ sumCalls = 0
    /\ sum = SummarizeInit
    /\ script = <<>>
    /\ delivered = [i \in Items |-> 0]
    /\ runsInRow = 0
    /\ cycleKind = "fresh"
    /\ scoreFailed = {}
    /\ called = NoCalls
    /\ flight = NoFlight
    /\ dropped = {}
    /\ net = NetIdle
    /\ disc = NoDiscovery
    /\ fn = NoText
    /\ pool = PoolIdle

\* scrapeBlog asks its next location and returns the articles if it accepts
\* them; after the root it returns the error, which the goroutine logs.
TryLocation ==
    /\ feed.state = "try"
    /\ feed.next <= Len(Locations(feed.domain))
    /\ \E o \in Answers :
          LET res == parseFeedOf(o)
              last == feed.next = Len(Locations(feed.domain))
          IN  /\ feed' = [feed EXCEPT
                            !.tried = Append(@, [url |-> Locations(feed.domain)[feed.next],
                                                 answer |-> o]),
                            !.next = @ + 1,
                            !.state = IF Accepted(res) THEN "save"
                                      ELSE IF last THEN "failed" ELSE "try",
                            !.got = IF Accepted(res) THEN res.articles ELSE <<>>,
                            !.todo = IF Accepted(res) THEN res.articles ELSE <<>>]
              /\ log' = IF ~Accepted(res) /\ last THEN {"WARN: scrape"} ELSE {}
    /\ UNCHANGED <<now, articles, analysis, cmd, pc, window, workers, work, sumCalls, sum, script, delivered, runsInRow, cycleKind, scoreFailed, pool, called, flight, dropped, net, disc, fn>>

\* The goroutine saves the next article scrapeBlog returned, tagged with the
\* blog's domain.
SaveFetched ==
    /\ feed.state = "save"
    /\ feed.todo # <<>>
    /\ LET a == Head(feed.todo)
           res == SaveArticle(articles,
                     [BlogDomain |-> feed.domain, Title |-> a.Title, URL |-> a.URL,
                      PublishedAt |-> a.PublishedAt])
       IN  /\ articles' = res.rows
           /\ log' = IF res.err THEN {"WARN: save article"} ELSE {}
    /\ feed' = [feed EXCEPT !.todo = Tail(@)]
    /\ UNCHANGED <<now, analysis, cmd, pc, window, workers, work, sumCalls, sum, script, delivered, runsInRow, cycleKind, scoreFailed, pool, called, flight, dropped, net, disc, fn>>

\* The goroutine has saved the last article and returns.
FeedDone ==
    /\ feed.state = "save"
    /\ feed.todo = <<>>
    /\ feed' = [feed EXCEPT !.state = "done"]
    /\ log' = {"Scraped"}
    /\ UNCHANGED <<now, articles, analysis, cmd, pc, window, workers, work, sumCalls, sum, script, delivered, runsInRow, cycleKind, scoreFailed, pool, called, flight, dropped, net, disc, fn>>

NextFeed == TryLocation \/ SaveFetched \/ FeedDone

SpecFeed == InitFeed /\ [][NextFeed]_vars

\* ------------------------------------------- two delivery stages at once
\* The store holds analysed, undelivered articles, and two runs of runPipeline
\* step 4 are about to start; nothing orders their steps.
InitOverlap ==
    /\ now = T0
    /\ \E n \in 1..MaxBacklog :
          /\ articles = {BacklogArticle(i) : i \in 1..n}
          /\ analysis = {BacklogAnalysis(i, 1) : i \in 1..n}
    /\ cmd = "run"
    /\ pc = "notify"
    /\ window = ""
    /\ workers = [b \in Blogs |-> <<>>]
    /\ work = <<>>
    /\ log = {}
    /\ sumCalls = 0
    /\ sum = SummarizeInit
    /\ script = <<>>
    /\ delivered = [i \in Items |-> 0]
    /\ runsInRow = 0
    /\ cycleKind = "fresh"
    /\ scoreFailed = {}
    /\ called = NoCalls
    /\ flight = NoFlight
    /\ dropped = {}
    /\ net = NetIdle
    /\ disc = NoDiscovery
    /\ fn = NoText
    /\ pool = PoolIdle
    /\ feed = FeedIdle

\* Run p calls UnnotifiedAnalyses("7days").
SelectStep(p) ==
    /\ flight[p].at = "idle"
    /\ LET newArticles == UnnotifiedAnalyses("7days") IN
          /\ flight' = [flight EXCEPT ![p] =
                           [at |-> IF newArticles.err \/ Len(newArticles.rows) = 0
                                   THEN "done" ELSE "trends",
                            list |-> newArticles.rows]]
          /\ log' = IF newArticles.err THEN {"WARNING: get unnotified"}
                    ELSE IF Len(newArticles.rows) = 0 THEN {"no new articles"} ELSE {}
    /\ UNCHANGED <<now, articles, analysis, cmd, pc, window, workers, work, sumCalls, sum, script, delivered, runsInRow, cycleKind, scoreFailed, pool, feed, called, dropped, net, disc, fn>>

\* Run p calls AnalyzeTrends for its list.
TrendsStep(p) ==
    /\ flight[p].at = "trends"
    /\ \E trendsOk \in BOOLEAN :
          /\ flight' = [flight EXCEPT ![p].at = IF trendsOk THEN "send" ELSE "done"]
          /\ log' = IF trendsOk THEN {} ELSE {"WARNING: trend analysis"}
    /\ UNCHANGED <<now, articles, analysis, cmd, pc, window, workers, work, sumCalls, sum, script, delivered, runsInRow, cycleKind, scoreFailed, pool, feed, called, dropped, net, disc, fn>>

\* Run p sends the digest of its list.
SendStep(p) ==
    /\ flight[p].at = "send"
    /\ \E sendOk \in BOOLEAN :
          /\ flight' = [flight EXCEPT ![p].at = IF sendOk THEN "mark" ELSE "done"]
          /\ log' = IF sendOk THEN {} ELSE {"WARNING: telegram send"}
          /\ delivered' = [i \in Items |->
                             IF sendOk /\ i \in IDsOf(flight[p].list)
                             THEN delivered[i] + 1 ELSE delivered[i]]
    /\ UNCHANGED <<now, articles, analysis, cmd, pc, window, workers, work, sumCalls, sum, script, runsInRow, cycleKind, scoreFailed, pool, feed, called, dropped, net, disc, fn>>

\* Run p calls MarkNotified with the ids of its list.
MarkStep(p) ==
    /\ flight[p].at = "mark"
    /\ analysis' = MarkNotified(analysis, IDsOf(flight[p].list))
    /\ flight' = [flight EXCEPT ![p].at = "done"]
    /\ log' = {"notified"}
    /\ UNCHANGED <<now, articles, cmd, pc, window, workers, work, sumCalls, sum, script, delivered, runsInRow, cycleKind, scoreFailed, pool, feed, called, dropped, net, disc, fn>>

\* A second passes while the runs are under way.
Elapse ==
    /\ now + Second <= T0 + MaxSeconds * Second
    /\ now' = now + Second
    /\ UNCHANGED <<articles, analysis, cmd, pc, window, workers, work, log, sumCalls, sum, script, delivered, runsInRow, cycleKind, scoreFailed, pool, feed, called, flight, dropped, net, disc, fn>>

NextOverlap ==
    \/ \E p \in Runs : SelectStep(p)
    \/ \E p \in Runs : TrendsStep(p)
    \/ \E p \in Runs : SendStep(p)
    \/ \E p \in Runs : MarkStep(p)
    \/ Elapse

SpecOverlap == InitOverlap /\ [][NextOverlap]_vars

\* ------------------------------------------- a cycle that is interrupted
\* A faulty variant of Interrupt: the stop tears the write of the scoring loop
\* in two, and the row of the article is left without its total_score.
InterruptTorn ==
    /\ pc = "analyze"
    /\ work # <<>>
    /\ analysis' = SaveArticleAnalysis(analysis,
                       [ArticleID |-> Head(work).ID, Relevance |-> 9, Quality |-> 8,
                        Timeliness |-> 7, TotalScore |-> 0, Category |-> "AI/ML",
                        Keywords |-> <<>>, AISummary |-> "", TitleCN |-> "",
                        RecommendReason |-> "", AnalyzedAt |-> now])
    /\ pc' = "idle"
    /\ cmd' = "none"
    /\ window' = ""
    /\ workers' = [b \in Blogs |-> <<>>]
    /\ work' = <<>>
    /\ log' = {"interrupted"}
    /\ sumCalls' = 0
    /\ runsInRow' = 0
    /\ dropped' = {}
    /\ UNCHANGED <<now, articles, sum, script, delivered, cycleKind, scoreFailed, pool, feed, called, flight, net, disc, fn>>

\* The process is stopped in the middle of a command (SIGINT, SIGTERM, a
\* crash): what it held in memory is gone, the store is as the last statement
\* left it.
Interrupt ==
    /\ pc # "idle"
    /\ pc' = "idle"
    /\ cmd' = "none"
    /\ window' = ""
    /\ workers' = [b \in Blogs |-> <<>>]
    /\ work' = <<>>
    /\ log' = {"interrupted"}
    /\ sumCalls' = 0
    /\ runsInRow' = 0
    /\ dropped' = IF cmd = "run" /\ pc = "analyze" THEN ArticleIDsOf(work) ELSE {}
    /\ UNCHANGED <<now, articles, analysis, sum, script, delivered, cycleKind, scoreFailed, pool, feed, called, flight, net, disc, fn>>

NextInterrupt == Next \/ Interrupt

SpecInterrupt == Init /\ [][NextInterrupt]_vars

\* ------------------------------------------- a store that refuses a write
\* A faulty variant of AnalyzeSaveFails: the loop is left at the failed save.
AnalyzeSaveFailsAborts ==
    /\ pc = "analyze"
    /\ work # <<>>
    /\ \E sr \in ScoreReplies, replies \in PipelineScripts :
          /\ ~ScoreArticle(sr).err
          /\ log' = {"WARNING: save analysis"}
                       \cup EnrichScored(analysis, Head(work), sr.v, replies).log
          /\ sumCalls' = EnrichScored(analysis, Head(work), sr.v, replies).calls
    /\ scoreFailed' = scoreFailed \ {Head(work).ID}
    /\ work' = <<>>
    /\ UNCHANGED <<now, articles, analysis, cmd, pc, window, workers, sum, script, delivered, runsInRow, cycleKind, pool, feed, called, flight, dropped, net, disc, fn>>

\* One pass of the scoring loop in which ScoreArticle succeeds and
\* SaveArticleAnalysis returns an error: the error is logged, no row is
\* written, the loop goes on.
AnalyzeSaveFails ==
    /\ pc = "analyze"
    /\ work # <<>>
    /\ \E sr \in ScoreReplies, replies \in PipelineScripts :
          /\ ~ScoreArticle(sr).err
          /\ log' = {"WARNING: save analysis"}
                       \cup EnrichScored(analysis, Head(work), sr.v, replies).log
          /\ sumCalls' = EnrichScored(analysis, Head(work), sr.v, replies).calls
    /\ scoreFailed' = scoreFailed \ {Head(work).ID}
    /\ work' = Tail(work)
    /\ UNCHANGED <<now, articles, analysis, cmd, pc, window, workers, sum, script, delivered, runsInRow, cycleKind, pool, feed, called, flight, dropped, net, disc, fn>>

\* One pass of the retry sweep in which SummarizeArticle succeeds and
\* SaveArticleAnalysis returns an error.
RetrySaveFails ==
    /\ pc = "retry"
    /\ work # <<>>
    /\ \E replies \in PipelineScripts :
          /\ ~SummarizeArticle(replies).err
          /\ sumCalls' = SummarizeArticle(replies).calls
    /\ log' = {"WARNING: save retry analysis"}
    /\ work' = Tail(work)
    /\ UNCHANGED <<now, articles, analysis, cmd, pc, window, workers, sum, script, delivered, runsInRow, cycleKind, scoreFailed, pool, feed, called, flight, dropped, net, disc, fn>>

NextSaveFails == Next \/ AnalyzeSaveFails \/ RetrySaveFails

SpecSaveFails == Init /\ [][NextSaveFails]_vars

\* ------------------------------------------- the network calls of a cycle
\* The blocking calls of runPipeline in their order, one of each kind: the
\* download of FetchTopBlogs, a feed retrieval, a model call, the delivery.
NetStages == <<"discover", "feed", "model", "send", "done">>

StageAfter(st) ==
    NetStages[(CHOOSE k \in 1..Len(NetStages) : NetStages[k] = st) + 1]

\* The timeout of the http client that makes the call.
TimeoutOf(st) ==
    IF st = "discover" THEN getTimeout
    ELSE IF st = "feed" THEN httpTimeout
    ELSE IF st = "model" THEN modelTimeout
    ELSE telegramTimeout

\* The request of the call carries the run context.
HasContext(st) == st \in {"feed", "model", "send"}

InitNet ==
    /\ now = T0
    /\ articles = {}
    /\ analysis = {}
    /\ cmd = "run"
    /\ pc = "scrape"
    /\ window = ""
    /\ workers = [b \in Blogs |-> <<>>]
    /\ work = <<>>
    /\ log = {}
    /\ sumCalls = 0
    /\ sum = SummarizeInit
    /\ script = <<>>
    /\ delivered = [i \in Items |-> 0]
    /\ runsInRow = 0
    /\ cycleKind = "fresh"
    /\ scoreFailed = {}
    /\ called = NoCalls
    /\ flight = NoFlight
    /\ dropped = {}
    /\ pool = PoolIdle
    /\ feed = FeedIdle
    /\ net = [NetIdle EXCEPT !.stage = "discover"]
    /\ disc = NoDiscovery
    /\ fn = NoText

\* The cycle makes its next call; with the context cancelled a call that
\* carries it fails at once.
StartCall ==
    /\ net.stage # "done"
    /\ ~net.open
    /\ net' = IF net.cancelled /\ HasContext(net.stage)
              THEN [net EXCEPT !.stage = StageAfter(net.stage)]
              ELSE [net EXCEPT !.open = TRUE, !.waited = 0]
    /\ UNCHANGED <<now, articles, analysis, cmd, pc, window, workers, work, log, sumCalls, sum, script, delivered, runsInRow, cycleKind, scoreFailed, pool, feed, called, flight, dropped, disc, fn>>

\* The peer answers (a result or an error), and the cycle goes on.
Respond ==
    /\ net.open
    /\ net' = [net EXCEPT !.open = FALSE, !.stage = StageAfter(net.stage)]
    /\ UNCHANGED <<now, articles, analysis, cmd, pc, window, workers, work, log, sumCalls, sum, script, delivered, runsInRow, cycleKind, scoreFailed, pool, feed, called, flight, dropped, disc, fn>>

\* A second passes with the call open.
Wait ==
    /\ net.open
    /\ TimeoutOf(net.stage) = 0 \/ net.waited < TimeoutOf(net.stage)
    /\ net.waited < MaxWait
    /\ net' = [net EXCEPT !.waited = @ + 1]
    /\ UNCHANGED <<now, articles, analysis, cmd, pc, window, workers, work, log, sumCalls, sum, script, delivered, runsInRow, cycleKind, scoreFailed, pool, feed, called, flight, dropped, disc, fn>>

\* The timeout of the client ends the call with an error.
TimeoutFires ==
    /\ net.open
    /\ TimeoutOf(net.stage) > 0
    /\ net.waited >= TimeoutOf(net.stage)
    /\ net' = [net EXCEPT !.open = FALSE, !.stage = StageAfter(net.stage)]
    /\ UNCHANGED <<now, articles, analysis, cmd, pc, window, workers, work, log, sumCalls, sum, script, delivered, runsInRow, cycleKind, scoreFailed, pool, feed, called, flight, dropped, disc, fn>>

\* SIGINT or SIGTERM cancels the run context: an open call that carries it
\* ends with an error.
Cancel ==
    /\ ~net.cancelled
    /\ net.stage # "done"
    /\ net' = IF net.open /\ HasContext(net.stage)
              THEN [net EXCEPT !.cancelled = TRUE, !.open = FALSE,
                               !.stage = StageAfter(net.stage)]
              ELSE [net EXCEPT !.cancelled = TRUE]
    /\ UNCHANGED <<now, articles, analysis, cmd, pc, window, workers, work, log, sumCalls, sum, script, delivered, runsInRow, cycleKind, scoreFailed, pool, feed, called, flight, dropped, disc, fn>>

NextNet == StartCall \/ Respond \/ Wait \/ TimeoutFires \/ Cancel

\* The cycle runs on, time passes and timeouts fire; no peer has to answer
\* and no signal has to come.
SpecNet ==
    /\ InitNet
    /\ [][NextNet]_vars
    /\ WF_vars(StartCall)
    /\ WF_vars(Wait)
    /\ WF_vars(TimeoutFires)

\* ------------------------------------------- source discovery, run by run

\* The domains that hn-data.csv may list, and the scores of its rows.
Domains == {"a.example", "b.example"}
CsvScores == {1, 2}
Authors == {"ann", "bob"}

\* The data rows of one download of hn-data.csv (the header is skipped).
Downloads ==
    UNION {[1..n -> [domain : Domains, score : CsvScores]] : n \in 0..MaxCsvRows}

\* domains-meta.csv of one download: the author of each domain.
Metas == {[d \in Domains |-> a] : a \in Authors}

\* fetchScores: scores[domain] += score over the rows.
RECURSIVE TotalOf(_, _)
TotalOf(csv, d) ==
    IF csv = <<>> THEN 0
    ELSE (IF Head(csv).domain = d THEN Head(csv).score ELSE 0) + TotalOf(Tail(csv), d)

fetchScores(csv) ==
    [d \in {csv[i].domain : i \in 1..Len(csv)} |-> TotalOf(csv, d)]

\* What sort.Slice may leave of the map's entries: every order of the domains
\* in which no score is followed by a larger one (equal scores in any order).
Sorted(scores) ==
    {o \in [1..Cardinality(DOMAIN scores) -> DOMAIN scores] :
        /\ \A i, j \in DOMAIN o : i # j => o[i] # o[j]
        /\ \A i, j \in DOMAIN o : i < j => scores[o[i]] >= scores[o[j]]}

\* FetchTopBlogs(limit): the first limit entries, ranked from 1.
FetchTopBlogs(limit, scores, meta, entries) ==
    [i \in 1..Min(limit, Len(entries)) |->
        [domain |-> entries[i], score |-> scores[entries[i]],
         author |-> meta[entries[i]], rank |-> i]]

\* A SaveBlogs whose conflict clause adds the new score to the stored one.
SaveBlogsAccumulate(rows, blogs) ==
    {r \in rows : \A i \in DOMAIN blogs : blogs[i].domain # r.domain}
    \cup {[blogs[i] EXCEPT !.score =
              @ + (IF \E r \in rows : r.domain = blogs[i].domain
                   THEN (CHOOSE r \in rows : r.domain = blogs[i].domain).score
                   ELSE 0)] : i \in DOMAIN blogs}

\* A SaveBlogs that empties the table before it inserts.
SaveBlogsReplaceAll(rows, blogs) == {blogs[i] : i \in DOMAIN blogs}

\* SaveBlogs: INSERT ... ON CONFLICT(domain) DO UPDATE SET score, author, rank.
SaveBlogs(rows, blogs) ==
    {r \in rows : \A i \in DOMAIN blogs : blogs[i].domain # r.domain}
    \cup {blogs[i] : i \in DOMAIN blogs}

InitBlogs == Init

\* One discovery run that commits: both downloads, the ranking, and SaveBlogs.
Discover ==
    /\ \E csv \in Downloads, meta \in Metas :
          \E entries \in Sorted(fetchScores(csv)) :
             LET blogs == FetchTopBlogs(DiscoverLimit, fetchScores(csv), meta, entries)
             IN disc' = [blogs   |-> SaveBlogs(disc.blogs, blogs),
                         csv     |-> csv,
                         meta    |-> meta,
                         fetched |-> blogs,
                         saved   |-> TRUE]
    /\ UNCHANGED <<now, articles, analysis, cmd, pc, window, workers, work, log,
                   sumCalls, sum, script, delivered, runsInRow, cycleKind,
                   scoreFailed, pool, feed, called, flight, dropped, net, fn>>

\* One discovery run that fails: a download fails and runPipeline returns
\* before SaveBlogs, or an Exec of SaveBlogs fails and its transaction is
\* rolled back. The table is as it was.
DiscoverFails ==
    /\ disc' = [disc EXCEPT !.saved = FALSE]
    /\ UNCHANGED <<now, articles, analysis, cmd, pc, window, workers, work, log,
                   sumCalls, sum, script, delivered, runsInRow, cycleKind,
                   scoreFailed, pool, feed, called, flight, dropped, net, fn>>

NextBlogs == Discover \/ DiscoverFails

SpecBlogs == InitBlogs /\ [][NextBlogs]_vars

\* ------------------------------------------- a digest sent chunk by chunk
\* runPipeline step 4 up to the call of Send: the list, the trends, the text
\* and its chunks (their number depends on the text; one at least).
CycleSelect ==
    /\ pc = "notify"
    /\ flight["first"].at # "send"
    /\ \E trendsOk \in BOOLEAN, c \in 1..MaxChunks :
          LET newArticles == UnnotifiedAnalyses("7days") IN
          IF newArticles.err \/ Len(newArticles.rows) = 0 \/ ~trendsOk
          THEN /\ Deliver(PipelineNotify(analysis, trendsOk, FALSE))
               /\ pc' = "idle"
               /\ cmd' = "none"
               /\ runsInRow' = Min(runsInRow + 1, 2)
               /\ flight' = NoFlight
               /\ fn' = NoText
          ELSE /\ flight' = [flight EXCEPT !["first"] =
                                [at |-> "send", list |-> newArticles.rows]]
               /\ fn' = [name |-> "Send", in |-> [k \in 1..c |-> k], out |-> <<>>,
                         done |-> FALSE]
               /\ log' = {}
               /\ UNCHANGED <<analysis, cmd, pc, delivered, runsInRow, called>>
    /\ UNCHANGED <<now, articles, window, workers, work, sumCalls, sum, script, cycleKind, scoreFailed, pool, feed, dropped, net, disc>>

\* A faulty variant of SendChunk: a chunk that is refused is skipped and the
\* next one is sent.
SendChunkSkips ==
    /\ pc = "notify"
    /\ flight["first"].at = "send"
    /\ Len(fn.out) + 1 < Len(fn.in)
    /\ fn' = [fn EXCEPT !.out = Append(@, fn.in[Len(fn.out) + 2])]
    /\ log' = {}
    /\ UNCHANGED <<now, articles, analysis, cmd, pc, window, workers, work, sumCalls, sum, script, delivered, runsInRow, cycleKind, scoreFailed, pool, feed, called, flight, dropped, net, disc>>

\* One pass of the loop of Send, and what runPipeline does when Send returns:
\* sendRaw of the next chunk; an error is returned at once and logged, the
\* last chunk accepted lets Send return nil and the list is marked.
SendChunk ==
    /\ pc = "notify"
    /\ flight["first"].at = "send"
    /\ \E ok \in BOOLEAN :
          LET list == flight["first"].list
              last == Len(fn.out) + 1 = Len(fn.in)
          IN  IF ~ok
              THEN /\ fn' = [fn EXCEPT !.done = TRUE]
                   /\ flight' = [flight EXCEPT !["first"].at = "failed"]
                   /\ log' = {"WARNING: telegram send"}
                   /\ called' = Calls("runPipeline", Len(list), "Send",
                                      <<"UnnotifiedAnalyses", "AnalyzeTrends", "Send">>)
                   /\ pc' = "idle"
                   /\ cmd' = "none"
                   /\ runsInRow' = Min(runsInRow + 1, 2)
                   /\ UNCHANGED <<analysis, delivered>>
              ELSE IF ~last
              THEN /\ fn' = [fn EXCEPT !.out = Append(@, fn.in[Len(fn.out) + 1])]
                   /\ log' = {}
                   /\ UNCHANGED <<analysis, cmd, pc, delivered, runsInRow, called, flight>>
              ELSE /\ fn' = NoText
                   /\ flight' = NoFlight
                   /\ analysis' = MarkNotified(analysis, IDsOf(list))
                   /\ delivered' = [i \in Items |->
                                       IF i \in IDsOf(FormatReport(list))
                                       THEN delivered[i] + 1 ELSE delivered[i]]
                   /\ log' = {"notified"}
                   /\ called' = Calls("runPipeline", Len(list), "",
                                      <<"UnnotifiedAnalyses", "AnalyzeTrends", "Send",
                                        "MarkNotified">>)
                   /\ pc' = "idle"
                   /\ cmd' = "none"
                   /\ runsInRow' = Min(runsInRow + 1, 2)
    /\ UNCHANGED <<now, articles, window, workers, work, sumCalls, sum, script, cycleKind, scoreFailed, pool, feed, dropped, net, disc>>

NextSend ==
    \/ Tick
    \/ StartPipeline
    \/ \E b \in Blogs : SaveStep(b)
    \/ ScrapeDone
    \/ AnalyzeStep
    \/ AnalyzeDone
    \/ RetryStep
    \/ RetryDone
    \/ CycleSelect
    \/ SendChunk

SpecSend == Init /\ [][NextSend]_vars

\* ------------------------------------------- the text functions on their own
\* A text is the sequence of its units (bytes for len and slicing).
NL == "\n"

\* strings.LastIndex(s, sep) with 0-based result, -1 when sep does not occur.
LastIndex(s, sep) ==
    LET at == {i \in 0..(Len(s) - Len(sep)) : SubSeq(s, i + 1, i + Len(sep)) = sep}
    IN  IF at = {} THEN -1 ELSE CHOOSE i \in at : \A j \in at : j <= i

\* strings.TrimLeft(s, "\n")
RECURSIVE TrimLeftNL(_)
TrimLeftNL(s) ==
    IF s # <<>> /\ Head(s) = NL THEN TrimLeftNL(Tail(s)) ELSE s

\* A faulty variant of the cut: a break at index 0 is taken too.
cutPointFromZero(text, maxLen) ==
    LET head == SubSeq(text, 1, maxLen) IN
    IF LastIndex(head, <<NL, NL>>) >= 0 THEN LastIndex(head, <<NL, NL>>)
    ELSE IF LastIndex(head, <<NL>>) >= 0 THEN LastIndex(head, <<NL>>)
    ELSE maxLen

\* The split point of splitMessage in a text longer than maxLen.
cutPoint(text, maxLen) ==
    LET head == SubSeq(text, 1, maxLen) IN
    IF LastIndex(head, <<NL, NL>>) > 0 THEN LastIndex(head, <<NL, NL>>)
    ELSE IF LastIndex(head, <<NL>>) > 0 THEN LastIndex(head, <<NL>>)
    ELSE maxLen

\* The loop of splitMessage: for len(text) > 0 { ... }
RECURSIVE splitLoop(_, _, _)
splitLoop(text, maxLen, chunks) ==
    IF Len(text) = 0 THEN chunks
    ELSE IF Len(text) <= maxLen THEN Append(chunks, text)
    ELSE LET cut == cutPoint(text, maxLen) IN
         splitLoop(TrimLeftNL(SubSeq(text, cut + 1, Len(text))), maxLen,
                   Append(chunks, SubSeq(text, 1, cut)))

splitMessage(text, maxLen) ==
    IF Len(text) <= maxLen THEN <<text>> ELSE splitLoop(text, maxLen, <<>>)

\* The texts splitMessage is examined on.
SplitUnits == {"a", "b", NL}
SplitTexts == UNION {[1..n -> SplitUnits] : n \in 0..MaxText}

\* The state in which a text function is about to be applied to its input.
TextInit(name, input) ==
    /\ now = T0
    /\ articles = {}
    /\ analysis = {}
    /\ cmd = "none"
    /\ pc = "idle"
    /\ window = ""
    /\ workers = [b \in Blogs |-> <<>>]
    /\ work = <<>>
    /\ log = {}
    /\ sumCalls = 0
    /\ sum = SummarizeInit
    /\ script = <<>>
    /\ delivered = [i \in Items |-> 0]
    /\ runsInRow = 0
    /\ cycleKind = "fresh"
    /\ scoreFailed = {}
    /\ called = NoCalls
    /\ flight = NoFlight
    /\ dropped = {}
    /\ net = NetIdle
    /\ disc = NoDiscovery
    /\ pool = PoolIdle
    /\ feed = FeedIdle
    /\ fn = [NoText EXCEPT !.name = name, !.in = input]

InitSplit == \E t \in SplitTexts : TextInit("splitMessage", t)

\* Send calls splitMessage on its text.
Split ==
    /\ fn.name = "splitMessage"
    /\ ~fn.done
    /\ fn' = [fn EXCEPT !.out = splitMessage(fn.in, SplitLen), !.done = TRUE]
    /\ UNCHANGED <<now, articles, analysis, cmd, pc, window, workers, work, log,
                   sumCalls, sum, script, delivered, runsInRow, cycleKind,
                   scoreFailed, pool, feed, called, flight, dropped, net, disc>>

NextSplit == Split

SpecSplit == InitSplit /\ [][NextSplit]_vars

\* ChatCompletion's cleaning of the model's reply. The units of a reply: the
\* ASCII and the typographic quotes, the fence of three backticks, the word
\* json, blank and newline, and the rest of JSON.
DQ == "\""
SQ == "'"
LDQ == "left double quotation mark"
RDQ == "right double quotation mark"
LSQ == "left single quotation mark"
RSQ == "right single quotation mark"
FENCE == "three backticks"
SP == " "
Typographic == {LDQ, RDQ, LSQ, RSQ}
Blank == {SP, NL}

\* strings.TrimSpace
RECURSIVE TrimSpace(_)
TrimSpace(s) ==
    IF s # <<>> /\ Head(s) \in Blank THEN TrimSpace(Tail(s))
    ELSE IF s # <<>> /\ s[Len(s)] \in Blank THEN TrimSpace(SubSeq(s, 1, Len(s) - 1))
    ELSE s

\* stripCodeFence: codeFenceRe matches a trimmed reply that begins with a fence
\* and ends with another one; its group is what lies between them behind an
\* optional word json, without the blanks at its ends.
stripCodeFence(s) ==
    LET t == TrimSpace(s) IN
    IF Len(t) >= 2 /\ t[1] = FENCE /\ t[Len(t)] = FENCE
    THEN LET inner == SubSeq(t, 2, Len(t) - 1)
             body == IF inner # <<>> /\ Head(inner) = "json" THEN Tail(inner) ELSE inner
         IN  TrimSpace(body)
    ELSE t

\* sanitizeJSON: the four strings.ReplaceAll.
sanitizeJSON(s) ==
    [i \in 1..Len(s) |->
        IF s[i] \in {LDQ, RDQ} THEN DQ
        ELSE IF s[i] \in {LSQ, RSQ} THEN SQ
        ELSE s[i]]

\* The end of ChatCompletion.
cleaned(content) == sanitizeJSON(stripCodeFence(content))

\* json.Unmarshal accepts the text as an object of one string member: blanks
\* around it are skipped, a string runs from one ASCII double quote to the next.
Unmarshals(s) ==
    LET t == TrimSpace(s)
        dq == {i \in 1..Len(t) : t[i] = DQ}
    IN  /\ Len(t) >= 7
        /\ t[1] = "{"
        /\ t[Len(t)] = "}"
        /\ Cardinality(dq) = 4
        /\ 2 \in dq
        /\ Len(t) - 1 \in dq
        /\ \E i \in dq : i > 2 /\ t[i + 1] = ":" /\ i + 2 \in dq

\* The replies the cleaning is examined on: an object of one member whose
\* strings are delimited by ASCII or by typographic double quotes, whose value
\* holds letters and typographic quotes, bare or inside a fence, with blanks.
Quotes == {<<DQ, DQ>>, <<LDQ, RDQ>>}
Values == UNION {[1..n -> {"a"} \cup Typographic] : n \in 0..MaxValue}
Objects ==
    {<<"{", k[1], "c", k[2], ":", v[1]>> \o val \o <<v[2], "}">> :
        k \in Quotes, v \in Quotes, val \in Values}
Fences == {<<>>, <<FENCE>>, <<FENCE, "json">>}
Pads == {<<>>, <<NL>>, <<SP, NL>>}
Replies ==
    {lead \o f \o pad \o o \o pad \o (IF f = <<>> THEN <<>> ELSE <<FENCE>>) \o lead :
        lead \in {<<>>, <<NL>>}, f \in Fences, pad \in Pads, o \in Objects}

InitClean == \E r \in Replies : TextInit("ChatCompletion", r)

\* ChatCompletion cleans the content of the first choice and returns it.
Clean ==
    /\ fn.name = "ChatCompletion"
    /\ ~fn.done
    /\ fn' = [fn EXCEPT !.out = cleaned(fn.in), !.done = TRUE]
    /\ UNCHANGED <<now, articles, analysis, cmd, pc, window, workers, work, log,
                   sumCalls, sum, script, delivered, runsInRow, cycleKind,
                   scoreFailed, pool, feed, called, flight, dropped, net, disc>>

NextClean == Clean

SpecClean == InitClean /\ [][NextClean]_vars

\* parseFeed's summary: truncate(stripTags(summary), 500).
\* The loop of stripTags over the runes of s, from its state (inTag, written).
RECURSIVE stripLoop(_, _, _)
stripLoop(s, inTag, b) ==
    IF s = <<>> THEN b
    ELSE IF Head(s) = "<" THEN stripLoop(Tail(s), TRUE, b)
    ELSE IF Head(s) = ">" THEN stripLoop(Tail(s), FALSE, b)
    ELSE IF ~inTag THEN stripLoop(Tail(s), inTag, Append(b, Head(s)))
    ELSE stripLoop(Tail(s), inTag, b)

\* A faulty variant of stripTags: the result is not trimmed.
stripTagsNoTrim(s) == stripLoop(s, FALSE, <<>>)

stripTags(s) == TrimSpace(stripLoop(s, FALSE, <<>>))

truncate(s, maxLen) ==
    IF Len(s) <= maxLen THEN s ELSE SubSeq(s, 1, maxLen) \o <<".", ".", ".">>

\* The summaries of feed items the two are examined on.
TagUnits == {"a", "<", ">", SP}
TagTexts == UNION {[1..n -> TagUnits] : n \in 0..MaxText}

InitStrip == \E t \in TagTexts : TextInit("stripTags", t)

\* parseFeed makes the summary of an item.
Strip ==
    /\ fn.name = "stripTags"
    /\ ~fn.done
    /\ fn' = [fn EXCEPT !.out = [stripped |-> stripTags(fn.in),
                                  summary |-> truncate(stripTags(fn.in), SummaryLen)],
                         !.done = TRUE]
    /\ UNCHANGED <<now, articles, analysis, cmd, pc, window, workers, work, log,
                   sumCalls, sum, script, delivered, runsInRow, cycleKind,
                   scoreFailed, pool, feed, called, flight, dropped, net, disc>>

NextStrip == Strip

SpecStrip == InitStrip /\ [][NextStrip]_vars

\* ------------------------------------------------------------ properties
\* notified_at of the analysis row of article id; NULL when there is no row.
NotifiedAtOf(rows, id) ==
    IF \E r \in rows : r.article_id = id
    THEN (CHOOSE r \in rows : r.article_id = id).notified_at
    ELSE NULL

\* The log lines of a failed telegram Send, in the pipeline and in the commands.
SendFailureLines == {"WARNING: telegram send", "FATAL: telegram send"}

\* The stored published_at of article id is inside window w now.
InWindow(id, w) == ArticleRow(id).published_at >= windowCutoff(w).cutoff


UniqueURL == \A a, b \in articles : a.url = b.url => a = b
UniqueAnalysis == \A r, q \in analysis : r.article_id = q.article_id => r = q

\* C1: in runPipeline, cmdNotify and cmdReport alike, an article's notified_at
\* changes only in a step whose Send succeeded for a digest holding the article
\* (the step logs the notification and the article's delivery count goes up by
\* one); a step whose Send failed changes no article's notified_at.
C1_MarkOnlyAfterSend ==
    [][ /\ \A i \in Items :
              NotifiedAtOf(analysis', i) # NotifiedAtOf(analysis, i)
              => /\ "notified" \in log'
                 /\ log' \cap SendFailureLines = {}
                 /\ delivered'[i] = delivered[i] + 1
        /\ log' \cap SendFailureLines # {}
              => /\ \A i \in Items : NotifiedAtOf(analysis', i) = NotifiedAtOf(analysis, i)
                 /\ delivered' = delivered ]_vars

\* A Send has just failed with articles waiting, after an earlier digest went out:
\* the waiting ones are still unmarked, the delivered one is marked.
C1_Witness ==
    /\ pc = "idle"
    /\ log \cap SendFailureLines # {}
    /\ \E r \in analysis : r.notified_at = NULL /\ delivered[r.article_id] = 0
    /\ \E r \in analysis : r.notified_at # NULL /\ delivered[r.article_id] = 1

\* C2: an article whose notified_at is set is not in the result of
\* UnnotifiedAnalyses after any later step (re-enrichment, retry sweep, another
\* MarkNotified, another cycle, the passing of time), for any window.
C2_NotifiedNeverReturns ==
    /\ [][ \A r \in analysis :
              r.notified_at # NULL => NotifiedAtOf(analysis', r.article_id) # NULL ]_vars
    /\ [](\A r \in analysis :
             r.notified_at # NULL
             => \A w \in Windows : r.article_id \notin IDsOf(UnnotifiedAnalyses(w).rows))

\* A notified article has been analysed again later, inside the 3days window.
C2_Witness ==
    \E r \in analysis :
       /\ r.notified_at # NULL
       /\ r.analyzed_at > r.notified_at[1]
       /\ InWindow(r.article_id, "3days")

C4_RerunChangesNothing ==
    [][ (cmd = "run" /\ cycleKind \in {"rerun", "settled"})
        => UNCHANGED <<articles, analysis>> ]_vars

\* C4, amended: a cycle started right after another one, on no new upstream
\* data, changes neither table provided the 7days window then holds no
\* unanalyzed article, no scored row without summary and no unnotified row.
C4_SettledRerunChangesNothing ==
    [][ (cmd = "run" /\ cycleKind = "settled")
        => UNCHANGED <<articles, analysis>> ]_vars

\* Such a second cycle has ended, finding nothing to send, with rows in place.
C4_Witness ==
    /\ pc = "idle"
    /\ runsInRow = 2
    /\ cycleKind = "settled"
    /\ log = {"no new articles"}
    /\ \E r \in analysis : r.notified_at # NULL /\ r.ai_summary # ""

\* C5: every article_analysis row has total_score = relevance + quality +
\* timeliness, after any sequence of operations.
C5_TotalIsSum ==
    \A r \in analysis : r.total_score = r.relevance + r.quality + r.timeliness

\* A row that was scored, summarized and delivered, next to one left without
\* summary.
C5_Witness ==
    /\ \E r \in analysis : r.ai_summary # "" /\ r.notified_at # NULL /\ r.timeliness > 1
    /\ \E r \in analysis : r.ai_summary = "" /\ r.relevance < 0

\* C6: a SaveArticle call for a url that is already stored (from the same or an
\* earlier cycle, with whatever other fields) returns no error and leaves the
\* table as it was, so the row keeps the fields of the first insert; the table
\* never holds two rows of one url.
C6_InsertOrIgnore ==
    [][ /\ UniqueURL'
        /\ \A b \in Blogs :
              ( /\ pc = "scrape"
                /\ workers[b] # <<>>
                /\ workers'[b] = Tail(workers[b])
                /\ Head(workers[b]).URL \in URLs )
              => /\ articles' = articles
                 /\ "WARN: save article" \notin log' ]_vars

\* The item of the second blog was stored first; the first blog has since saved
\* its item of the same url, with another title and time, and the row still
\* has the fields of the first insert.
C6_Witness ==
    /\ pc = "scrape"
    /\ workers["b.example"] = <<>>
    /\ Len(workers["a.example"]) = Len(scrapeBlog("a.example")) - 1
    /\ \E r \in articles :
          /\ r.url = ItemURL(MaxItems)
          /\ r.title = MaxItems
          /\ r.blog_domain = "b.example"
    /\ log = {}

\* C7 as stated: an article whose ScoreArticle call failed in a cycle is in the
\* list UnanalyzedArticles gives the next cycle.
C7_FailedScoreListedNextCycle ==
    [][ (cmd = "run" /\ pc = "scrape" /\ pc' = "analyze")
        => scoreFailed \subseteq ArticleIDsOf(work') ]_vars

\* C7, amended: a failed ScoreArticle call in runPipeline writes and changes no
\* article_analysis row and is followed by no SummarizeArticle call; the article
\* is in the list UnanalyzedArticles gives the next cycle if its published time
\* is still inside the 7days window by then.
C7_ScoreFailureSkipsItem ==
    [][ /\ ( /\ cmd = "run" /\ pc = "analyze"
             /\ work # <<>> /\ work' = Tail(work)
             /\ log' = {"WARNING: score"} )
           => /\ analysis' = analysis
              /\ sumCalls' = 0
              /\ NotifiedAtOf(analysis', Head(work).ID) = NULL
              /\ Head(work).ID \in scoreFailed'
        /\ (cmd = "run" /\ pc = "scrape" /\ pc' = "analyze")
           => \A id \in scoreFailed :
                 InWindow(id, "7days") => id \in ArticleIDsOf(work') ]_vars

\* A later cycle has the article of a failed ScoreArticle call in its list again.
C7_Witness ==
    /\ cmd = "run"
    /\ pc = "analyze"
    /\ \E k \in 1..Len(work) :
          /\ work[k].ID \in scoreFailed
          /\ \A r \in analysis : r.article_id # work[k].ID

\* The first ChatCompletion reply that unmarshals, 0 when there is none.
FirstSuccess(replies) ==
    IF \E k \in 1..maxRetries : replies[k].kind = "json"
    THEN CHOOSE k \in 1..maxRetries :
            /\ replies[k].kind = "json"
            /\ \A j \in 1..(k - 1) : replies[j].kind # "json"
    ELSE 0

\* C8: SummarizeArticle never makes more than maxRetries calls; when every
\* attempt fails, by a call error or a parse error, it returns an error after
\* exactly maxRetries calls; otherwise it returns the first result that
\* unmarshals, having made no call after it.
C8_RetryBound ==
    /\ sum.calls <= maxRetries
    /\ sum.returned
       => /\ sum = SummarizeArticle(script)
          /\ IF FirstSuccess(script) = 0
             THEN sum.err /\ sum.calls = maxRetries
             ELSE /\ ~sum.err
                  /\ sum.calls = FirstSuccess(script)
                  /\ sum.result = script[FirstSuccess(script)].v

\* Every attempt failed, in both ways, and the function has given up.
C8_Witness ==
    /\ sum.returned
    /\ sum.err
    /\ sum.calls = maxRetries
    /\ \E k \in 1..maxRetries : script[k].kind = "error"
    /\ \E k \in 1..maxRetries : script[k].kind = "garbage"

\* C9 as stated: when every SummarizeArticle attempt fails for a newly scored
\* article the row is written with the Stage-A fields and empty Stage-B fields,
\* and from then on UnsummarizedHighScoreArticles(window, 0) returns the article
\* for every window its published time is in.
C9_UnsummarizedIsSwept ==
    /\ [][ ( /\ pc = "analyze"
             /\ work # <<>> /\ work' = Tail(work)
             /\ log' = {"WARNING: summarize"} )
           => /\ sumCalls' = maxRetries
              /\ \E r \in analysis' :
                    /\ r.article_id = Head(work).ID
                    /\ r.total_score = r.relevance + r.quality + r.timeliness
                    /\ r.category # ""
                    /\ r.ai_summary = "" /\ r.title_cn = "" /\ r.recommend_reason = "" ]_vars
    /\ [](\A r \in analysis :
             r.ai_summary = ""
             => \A w \in Windows :
                   InWindow(r.article_id, w)
                   => r.article_id \in IDsOf(UnsummarizedHighScoreArticles(w, 0).rows))

\* time.Duration of a window name.
WindowDuration(w) ==
    IF w = "24h" THEN 24 * Hour ELSE IF w = "3days" THEN 72 * Hour ELSE 168 * Hour

\* The published time the feed gave for a stored article (the zero time when
\* the feed gave none).
PublishedOf(a) == ItemPublished(a.title)

\* C10 as stated: ArticlesByTimeWindow(w) returns exactly the articles
\* published at or after now - duration(w).
C10_WindowExact ==
    \A w \in Windows :
       ArticleIDsOf(ArticlesByTimeWindow(w).rows)
          = {a.id : a \in {x \in articles : PublishedOf(x) >= now - WindowDuration(w)}}

\* C10, amended: ArticlesByTimeWindow(w) returns exactly the articles whose
\* published time, cut to whole seconds, is at or after now - duration(w) cut
\* to whole seconds (so an article published less than a second before the
\* cutoff can be returned); an article published exactly at the cutoff is
\* returned, one without published time never is.
C10_WindowWholeSeconds ==
    \A w \in Windows :
       LET q == ArticlesByTimeWindow(w)
           ids == ArticleIDsOf(q.rows)
       IN  /\ ~q.err
           /\ ids = {a.id : a \in {x \in articles :
                        FormatRFC3339(PublishedOf(x))
                           >= FormatRFC3339(now - WindowDuration(w))}}
           /\ \A a \in articles :
                 /\ PublishedOf(a) = now - WindowDuration(w) => a.id \in ids
                 /\ PublishedOf(a) = ZeroTime => a.id \notin ids

\* A fraction of a second past the boundary the 24h window still returns the
\* article published 24h before the last whole second, and an article without
\* published time is stored and not returned.
C10_Witness ==
    /\ now % Second # 0
    /\ \E a \in articles :
          /\ PublishedOf(a) < now - WindowDuration("24h")
          /\ a.id \in ArticleIDsOf(ArticlesByTimeWindow("24h").rows)
    /\ \E a \in articles : PublishedOf(a) = ZeroTime

\* C11: ArticlesByTimeWindow, UnanalyzedArticles, UnsummarizedHighScoreArticles,
\* TopScoredArticles and UnnotifiedAnalyses, called with a window name other
\* than 24h, 3days and 7days, return an error and no rows, whatever the tables
\* hold.
C11_UnknownWindowIsError ==
    \A w \in WindowArgs \ Windows :
       /\ windowCutoff(w).err
       /\ ArticlesByTimeWindow(w) = [err |-> TRUE, rows |-> <<>>]
       /\ UnanalyzedArticles(w) = [err |-> TRUE, rows |-> <<>>]
       /\ UnsummarizedHighScoreArticles(w, 0) = [err |-> TRUE, rows |-> <<>>]
       /\ TopScoredArticles(AnalysesLimit, w) = [err |-> TRUE, rows |-> <<>>]
       /\ UnnotifiedAnalyses(w) = [err |-> TRUE, rows |-> <<>>]

\* newsbot notify was given an unknown window while unnotified rows of the 24h
\* window were waiting: the query failed and the command ended.
C11_Witness ==
    /\ pc = "idle"
    /\ log = {"FATAL: get unnotified"}
    /\ Len(UnnotifiedAnalyses("24h").rows) > 0
    /\ Len(UnanalyzedArticles("7days").rows) > 0

\* The joined rows a ranked query may return for window w when the comparison
\* is made on whole seconds, and when it is made on the exact times.
EligibleWholeSeconds(w) ==
    {a.id : a \in {x \in articles :
        /\ HasAnalysis(x.id)
        /\ FormatRFC3339(PublishedOf(x)) >= FormatRFC3339(now - WindowDuration(w))}}
EligibleExact(w) ==
    {a.id : a \in {x \in articles :
        /\ HasAnalysis(x.id)
        /\ PublishedOf(x) >= now - WindowDuration(w)}}

\* list is a ranking of at most limit of the ids in eligible: no id twice, the
\* stored total_score never rising along it, as long as limit and eligible
\* allow, nothing left out that scores higher than something in it, and each
\* element carrying the stored row.
IsRanking(list, eligible, limit) ==
    /\ \A k \in 1..Len(list) : list[k].Article.ID \in eligible
    /\ \A j, k \in 1..Len(list) : list[j].Article.ID = list[k].Article.ID => j = k
    /\ Len(list) = Min(limit, Cardinality(eligible))
    /\ \A k \in 1..(Len(list) - 1) :
          list[k].ArticleAnalysis.TotalScore >= list[k + 1].ArticleAnalysis.TotalScore
    /\ \A k \in 1..Len(list) :
          /\ list[k].ArticleAnalysis.TotalScore = AnalysisRow(list[k].Article.ID).total_score
          /\ \A e \in eligible \ IDsOf(list) :
                AnalysisRow(e).total_score <= list[k].ArticleAnalysis.TotalScore

\* C12 as stated: TopScoredArticles(limit, w) is the ranking, cut at limit, of
\* the analysed articles published at or after now - duration(w).
C12_TopScoredExact ==
    \A w \in Windows, limit \in 0..MaxLimit :
       IsRanking(TopScoredArticles(limit, w).rows, EligibleExact(w), limit)

\* C12, amended: TopScoredArticles(limit, w) is the ranking, cut at limit, of
\* the analysed articles whose published time, cut to whole seconds, is at or
\* after now - duration(w) cut to whole seconds.
C12_TopScoredWholeSeconds ==
    \A w \in Windows, limit \in 0..MaxLimit :
       LET q == TopScoredArticles(limit, w)
       IN  ~q.err /\ IsRanking(q.rows, EligibleWholeSeconds(w), limit)

\* Two scored articles a fraction of a second after the 24h boundary of the
\* newer one: the 7days view ranks the newer, higher-scored one first, a limit
\* of one cuts the older one off, and the 24h view has the newer one only.
C12_Witness ==
    /\ now % Second # 0
    /\ LET week == TopScoredArticles(MaxLimit, "7days").rows
           day == TopScoredArticles(MaxLimit, "24h").rows
       IN  /\ Len(week) = 2
           /\ week[1].ArticleAnalysis.TotalScore > week[2].ArticleAnalysis.TotalScore
           /\ week[1].Article.PublishedAt > week[2].Article.PublishedAt
           /\ TopScoredArticles(1, "7days").rows = <<week[1]>>
           /\ day = <<week[1]>>
           /\ PublishedOf(ArticleRow(day[1].Article.ID)) < now - WindowDuration("24h")

\* The analysed articles of window w that wait for a digest.
Undelivered(w) ==
    {a.id : a \in {x \in articles :
        /\ HasAnalysis(x.id)
        /\ InWindow(x.id, w)
        /\ AnalysisRow(x.id).notified_at = NULL}}

\* C13: UnnotifiedAnalyses(w) is the ranking by total_score, cut at 20, of the
\* analysed articles of the window whose notified_at is null: only such
\* articles, no more than 20, the highest-scoring ones, in non-increasing
\* order; no article whose notified_at is set is in it.
C13_UnnotifiedRanking ==
    \A w \in Windows :
       LET q == UnnotifiedAnalyses(w)
       IN  /\ ~q.err
           /\ IsRanking(q.rows, Undelivered(w), UnnotifiedLimit)
           /\ Len(q.rows) <= UnnotifiedLimit
           /\ \A r \in analysis :
                 r.notified_at # NULL => r.article_id \notin IDsOf(q.rows)

\* More than 20 articles were waiting: one digest has gone out with the 20
\* highest-scoring ones, and the rest is what the next query returns.
C13_Witness ==
    /\ log = {"notified"}
    /\ Cardinality({r \in analysis : r.notified_at # NULL}) = UnnotifiedLimit
    /\ Len(UnnotifiedAnalyses("7days").rows) = Cardinality(analysis) - UnnotifiedLimit
    /\ Len(UnnotifiedAnalyses("7days").rows) > 0
    /\ \A r, q \in analysis :
          (r.notified_at # NULL /\ q.notified_at = NULL) => r.total_score >= q.total_score

\* C14: at every moment of a ScrapeBlogs call at most maxConcurrency goroutines
\* are between taking a slot and releasing it (scrapeBlog and the SaveArticle
\* loop), however many blogs there are.
C14_PoolBound ==
    Inside <= maxConcurrency

\* The pool is full, and goroutines of further blogs and of a followed blog are
\* waiting for a slot.
C14_Witness ==
    /\ pc = "scrape"
    /\ Inside = maxConcurrency
    /\ pool.others.go > 0
    /\ \E b \in Blogs : pool.at[b] = "go"
    /\ \E b \in Blogs : pool.at[b] = "save"

\* C15: ScrapeBlogs has returned, and runPipeline has read the unanalyzed
\* articles, only when every goroutine has made all its SaveArticle calls and
\* has ended: no goroutine is waiting, retrieving or saving, and the list that
\* was read is the one the finished harvest leaves.
C15_ReturnsAfterWorkers ==
    pc = "analyze" =>
        /\ \A b \in Blogs : pool.at[b] = "done" /\ workers[b] = <<>>
        /\ pool.others.go = 0
        /\ pool.others.in = 0
        /\ Inside = 0
        /\ work = UnanalyzedArticles("7days").rows

\* ScrapeBlogs has returned after goroutines of both kinds ran, and every item
\* of the feeds is stored.
C15_Witness ==
    /\ pc = "analyze"
    /\ pool.others.done > 0
    /\ \A b \in Blogs : pool.res[b] = "ok"
    /\ \A i \in Items : ItemURL(i) \in URLs
    /\ work # <<>>

\* The articles scrapeBlog gave the goroutine of blog b.
Retrieved(b) == {FeedFrom(b, 1)[k] : k \in 1..Len(FeedFrom(b, 1))}

\* C16: when ScrapeBlogs has returned, it has returned no error, and every
\* article retrieved from a blog is stored unless its own SaveArticle call
\* failed: neither the failed retrieval of another blog nor the failed save of
\* another article loses it.
C16_FailuresAreIsolated ==
    pc = "analyze" =>
        /\ "ERROR: scrape" \notin log
        /\ \A b \in Blogs :
              pool.res[b] = "ok" =>
                  \A a \in Retrieved(b) :
                      <<b, a.URL>> \notin pool.saveFailed => a.URL \in URLs

\* ScrapeBlogs has returned after one followed blog and some further blogs
\* failed to be retrieved and one SaveArticle call failed, with the other
\* articles of the same blog stored.
C16_Witness ==
    /\ pc = "analyze"
    /\ pool.res["b.example"] = "down"
    /\ pool.others.done > 0
    /\ pool.res["a.example"] = "ok"
    /\ Cardinality(pool.saveFailed) = 1
    /\ Cardinality(URLs) = MaxItems - 2

\* A location's answer that scrapeBlog does not take: the request failed or
\* timed out, or the feed has no item.
FailedAnswer(o) == o.kind \in {"error", "timeout"} \/ o.n = 0

\* The rows of the store tagged with the blog scrapeBlog ran for.
TaggedRows == {r \in articles : r.blog_domain = feed.domain}

\* C17: scrapeBlog asks the feed paths in their fixed order and then the bare
\* root, each at most once and each only after all earlier ones failed (error,
\* timeout or no item); it returns the articles of the first location that
\* parses with at least one item and asks no further location; it yields
\* nothing for the blog when the root failed too; and the goroutine stores
\* one row tagged with the blog's domain per new item of the accepted feed.
C17_FirstGoodLocation ==
    /\ [](LET n == Len(feed.tried) IN
            /\ n <= Len(feedPaths) + 1
            /\ \A k \in 1..n : feed.tried[k].url = Locations(feed.domain)[k]
            /\ \A k \in 1..(n - 1) : FailedAnswer(feed.tried[k].answer)
            /\ feed.state = "try" => \A k \in 1..n : FailedAnswer(feed.tried[k].answer)
            /\ feed.state \in {"save", "done"} =>
                  /\ n >= 1
                  /\ ~FailedAnswer(feed.tried[n].answer)
                  /\ Len(feed.got) = Min(feed.tried[n].answer.n, maxArticles)
                  /\ \A i \in 1..Len(feed.got) : feed.got[i] = FeedArticle(i)
            /\ feed.state = "failed" =>
                  /\ n = Len(feedPaths) + 1
                  /\ feed.tried[n].url = <<"https://", feed.domain>>
                  /\ \A k \in 1..n : FailedAnswer(feed.tried[k].answer)
                  /\ feed.got = <<>>
                  /\ TaggedRows = {}
            /\ feed.state = "done" =>
                  /\ {r.url : r \in TaggedRows}
                        = {feed.got[i].URL : i \in 1..Len(feed.got)} \ feed.before
                  /\ Cardinality(TaggedRows) = Cardinality({r.url : r \in TaggedRows}))
    /\ [][feed.state \in {"save", "done", "failed"} => feed'.tried = feed.tried]_vars

\* The first three feed paths timed out, the fourth gave 3 new items, and
\* exactly 3 articles tagged with the blog's domain are stored.
C17_Witness ==
    /\ feed.state = "done"
    /\ Len(feed.tried) = 4
    /\ \A k \in 1..3 : feed.tried[k].answer.kind = "timeout"
    /\ feed.tried[4].answer = [kind |-> "feed", n |-> 3]
    /\ feed.tried[4].url = <<"https://", feed.domain, "/feed.xml">>
    /\ feed.before = {}
    /\ Cardinality(articles) = 3
    /\ \A r \in articles : r.blog_domain = feed.domain

\* The seven feed paths failed, the bare root was asked once and failed too.
C17_WitnessRoot ==
    /\ feed.state = "failed"
    /\ Len(feed.tried) = Len(feedPaths) + 1

\* The failure lines runPipeline logs.
PipelineFailureLines ==
    {"ERROR: fetch blogs", "WARN: scrape", "WARN: save article", "WARNING: score",
     "WARNING: summarize", "WARNING: retry summarize", "WARNING: get unnotified",
     "WARNING: trend analysis", "WARNING: telegram send"}

\* C18: a step of runPipeline before its last stage that logs the failure of
\* its stage leaves the cycle running: the pipeline goes on with the next
\* stage instead of ending.
C18_FailureProceeds ==
    [][(now' = now /\ pc # "notify" /\ log' \cap PipelineFailureLines # {})
          => pc' # "idle"]_vars

\* The calls of the delivery stage that has just run.
Made == {called.made[k] : k \in 1..Len(called.made)}

\* runPipeline or cmdNotify ran its delivery stage and UnnotifiedAnalyses
\* returned no article.
NothingUndelivered ==
    /\ called.by \in {"runPipeline", "cmdNotify"}
    /\ called.failed = ""
    /\ called.found = 0

\* C19: when UnnotifiedAnalyses returns an empty list to runPipeline or to
\* cmdNotify, UnnotifiedAnalyses is the only call of the delivery stage:
\* AnalyzeTrends, Send and MarkNotified are not called, nothing is delivered
\* and no row changes.
C19_EmptyMakesNoCalls ==
    /\ [](NothingUndelivered => called.made = <<"UnnotifiedAnalyses">>)
    /\ [][(now' = now /\ NothingUndelivered')
            => analysis' = analysis /\ delivered' = delivered]_vars

\* A scheduled cycle found nothing undelivered although analysed articles
\* exist, all of which an earlier cycle delivered.
C19_Witness ==
    /\ called.by = "runPipeline"
    /\ NothingUndelivered
    /\ analysis # {}
    /\ \E i \in Items : delivered[i] > 0
    /\ Made = {"UnnotifiedAnalyses"}

\* C20: when AnalyzeTrends fails for runPipeline or cmdNotify with a nonempty
\* undelivered list, the digest of those articles is sent all the same.
C20_TrendFailureStillSends ==
    (/\ called.by \in {"runPipeline", "cmdNotify"}
     /\ called.failed = "AnalyzeTrends"
     /\ called.found > 0)
        => "Send" \in Made

\* The stages of runPipeline after source discovery, as positions of the
\* cycle, and the steps from one to the next.
StageSteps ==
    {<<"idle", "scrape">>, <<"scrape", "analyze">>, <<"analyze", "retry">>,
     <<"retry", "notify">>, <<"notify", "idle">>}

\* The calls of runPipeline step 4 in their order.
DeliveryOrder == <<"UnnotifiedAnalyses", "AnalyzeTrends", "Send", "MarkNotified">>

\* C21: a runPipeline cycle moves through harvest, enrichment, retry sweep and
\* delivery in this order only, leaves a stage only when its work list is
\* empty, never goes back to a stage, and in the delivery stage calls select,
\* trend aggregation, Send and MarkNotified in this order, each at most once.
C21_StageOrder ==
    /\ [][((cmd = "run" \/ cmd' = "run") /\ pc' # pc)
            => /\ <<pc, pc'>> \in StageSteps
               /\ pc = "scrape" => \A b \in Blogs : workers[b] = <<>>
               /\ pc \in {"analyze", "retry"} => work = <<>>]_vars
    /\ [](called.by = "runPipeline"
            => \E k \in 0..Len(DeliveryOrder) : called.made = SubSeq(DeliveryOrder, 1, k))

\* A cycle has gone through every stage: articles were harvested, scored and
\* summarized, and the delivery stage made its four calls.
C21_Witness ==
    /\ pc = "idle"
    /\ called.by = "runPipeline"
    /\ called.made = DeliveryOrder
    /\ articles # {}
    /\ \E r \in analysis : r.ai_summary # "" /\ r.notified_at # NULL

\* C22: notified_at never goes back to NULL, and once it holds a timestamp no
\* later operation gives it another value.
C22_NotifiedAtSetOnce ==
    [][\A r \in analysis :
          r.notified_at # NULL => NotifiedAtOf(analysis', r.article_id) = r.notified_at]_vars

\* C23: in every state of the store an article has at most one
\* article_analysis row and every article_analysis row belongs to an article
\* of table articles; saving the analysis of an analysed article keeps the
\* number of rows.
C23_OneAnalysisPerArticle ==
    /\ [](/\ \A r, q \in analysis : r.article_id = q.article_id => r = q
          /\ \A r \in analysis : r.article_id \in ArticleIDs)
    /\ [][{r.article_id : r \in analysis'} = {r.article_id : r \in analysis}
            => Cardinality(analysis') = Cardinality(analysis)]_vars

\* newsbot analyze has written the analysis of an article again that was
\* analysed and delivered before.
C23_Witness ==
    /\ cmd = "analyze"
    /\ now > T0
    /\ \E r \in analysis :
          /\ r.notified_at # NULL
          /\ r.analyzed_at = FormatRFC3339(now)
          /\ r.analyzed_at > r.notified_at[1]

\* The row of article id after the step.
NewRow(id) == CHOOSE r \in analysis' : r.article_id = id

\* All Stage-A fields of row r are those of one reply of the model.
FromOneScore(r) ==
    \E c \in ScoreChoices :
       /\ r.relevance = c.Relevance
       /\ r.quality = c.Quality
       /\ r.timeliness = c.Timeliness
       /\ r.total_score = c.Relevance + c.Quality + c.Timeliness
       /\ r.category = c.Category
       /\ r.keywords = Join(c.Keywords, ", ")

\* C24: when the scoring loop saves the analysis of an article that has a row,
\* the row's content is the new one throughout: the Stage-A fields are those
\* of the one new score reply, analyzed_at is the time of the save, and the
\* Stage-B fields are those of the new summary, or all empty when the
\* summarization failed, whatever the row held before.
C24_ReanalysisReplaces ==
    [][(/\ pc = "analyze"
        /\ work # <<>>
        /\ HasAnalysis(Head(work).ID)
        /\ work' = Tail(work)
        /\ "WARNING: score" \notin log')
          => LET r == NewRow(Head(work).ID) IN
             /\ FromOneScore(r)
             /\ r.analyzed_at = FormatRFC3339(now)
             /\ IF "WARNING: summarize" \in log'
                THEN r.ai_summary = "" /\ r.title_cn = "" /\ r.recommend_reason = ""
                ELSE \E c \in SummaryChoices \ {NoSummary} :
                        /\ r.ai_summary = c.Summary
                        /\ r.title_cn = c.TitleCN
                        /\ r.recommend_reason = c.RecommendReason]_vars

\* newsbot analyze has scored a delivered article again and failed to
\* summarize it: its row carries the time of this save and no Stage-B field.
C24_Witness ==
    /\ cmd = "analyze"
    /\ pc = "analyze"
    /\ log = {"WARNING: summarize"}
    /\ \E r \in analysis :
          /\ r.notified_at # NULL
          /\ r.analyzed_at = FormatRFC3339(now)
          /\ r.ai_summary = ""
          /\ r.title_cn = ""
          /\ r.recommend_reason = ""

\* C25: a pass of the retry sweep is for an article that has a row with an
\* empty ai_summary; when its summarization fails no row changes; when it
\* succeeds only ai_summary, title_cn and recommend_reason of that row change:
\* its scores, total, category, keywords, analyzed_at and notified_at, every
\* other row and table articles stay as they are.
C25_SweepTouchesStageBOnly ==
    [][(pc = "retry" /\ work # <<>> /\ work' = Tail(work))
          => LET id == Head(work).Article.ID IN
             /\ HasAnalysis(id)
             /\ AnalysisRow(id).ai_summary = ""
             /\ articles' = articles
             /\ \A r \in analysis : r.article_id # id => r \in analysis'
             /\ Cardinality(analysis') = Cardinality(analysis)
             /\ IF "WARNING: retry summarize" \in log'
                THEN analysis' = analysis
                ELSE LET old == AnalysisRow(id)
                         new == NewRow(id)
                     IN  new = [old EXCEPT !.ai_summary = new.ai_summary,
                                           !.title_cn = new.title_cn,
                                           !.recommend_reason = new.recommend_reason]]_vars

\* The sweep of a later cycle has summarized an article that was scored and
\* delivered without a summary before.
C25_Witness ==
    /\ pc = "retry"
    /\ sumCalls > 0
    /\ log = {}
    /\ \E r \in analysis :
          /\ r.ai_summary # ""
          /\ r.analyzed_at < FormatRFC3339(now)
          /\ r.notified_at # NULL

\* C26 as stated: the cycle that follows an interrupted one has in its list
\* every article the interrupted scoring loop had not reached and that is
\* still without analysis.
C26_InterruptedWorkPickedUp ==
    [][(pc = "scrape" /\ pc' = "analyze")
          => \A id \in dropped : ~HasAnalysis(id) => id \in ArticleIDsOf(work')]_vars

\* C26: wherever a command is stopped, the store is valid: every
\* article_analysis row has total_score equal to the sum of its scores and
\* belongs to an article, no article has two rows, and a row is marked
\* notified only if a digest with it was sent; the undelivered rows of the
\* window are what UnnotifiedAnalyses returns; and the cycle that follows has
\* in its list every article the interrupted scoring loop had not reached,
\* that is still without analysis and still inside the 7days window.
C26_InterruptedStoreResumable ==
    /\ [](/\ \A r \in analysis :
                /\ r.total_score = r.relevance + r.quality + r.timeliness
                /\ r.article_id \in ArticleIDs
                /\ r.notified_at # NULL => delivered[r.article_id] >= 1
          /\ \A r, q \in analysis : r.article_id = q.article_id => r = q
          /\ log = {"interrupted"}
                => \A r \in analysis :
                      (r.notified_at = NULL /\ InWindow(r.article_id, "7days"))
                         => r.article_id \in IDsOf(UnnotifiedAnalyses("7days").rows))
    /\ [][(pc = "scrape" /\ pc' = "analyze")
            => \A id \in dropped :
                  (~HasAnalysis(id) /\ InWindow(id, "7days"))
                     => id \in ArticleIDsOf(work')]_vars

\* A cycle was stopped in its scoring loop, and the list of the cycle that
\* follows holds an article the stopped loop had not reached, beside a row the
\* stopped loop wrote.
C26_Witness ==
    /\ cmd = "run"
    /\ pc = "analyze"
    /\ \E id \in dropped : id \in ArticleIDsOf(work)
    /\ analysis # {}
    /\ \A i \in Items : delivered[i] = 0


\* C27: a cycle that is at a feed retrieval, a model call or the delivery call
\* gets through its network calls and ends, whether or not a peer answers and
\* whether or not the run context is cancelled.
C27_CycleTerminates ==
    [](net.stage \in {"feed", "model", "send"} => <>(net.stage = "done"))

\* The range the scoring prompt asks the model for.
ScoreRange == 1..10

\* C28: every article_analysis row has relevance, quality and timeliness
\* within 1..10 each.
C28_ScoresInRange ==
    \A r \in analysis :
       /\ r.relevance \in ScoreRange
       /\ r.quality \in ScoreRange
       /\ r.timeliness \in ScoreRange
\* The rows of table blogs for one domain.
BlogRows(rows, d) == {r \in rows : r.domain = d}

\* The domains of the blogs the latest FetchTopBlogs returned.
FetchedDomains(f) == {f[i].domain : i \in DOMAIN f}

\* Ranks run from 1 without gap or repeat, and a better rank never goes with
\* a smaller score.
DenseDescending(rows) ==
    /\ {r.rank : r \in rows} = 1..Cardinality(rows)
    /\ \A r, q \in rows : r.rank < q.rank => r.score >= q.score

\* C29: after any sequence of discovery runs table blogs holds one row per
\* domain, and its ranks are 1-based and dense in descending score order.
C29_TableRanksDense ==
    /\ \A d \in Domains : Cardinality(BlogRows(disc.blogs, d)) <= 1
    /\ DenseDescending(disc.blogs)

\* C29 (amended): table blogs holds at most one row per domain; a committed run
\* leaves, for each domain it contained, the row with this run's total score,
\* author and rank (the stored score is not added to), and leaves every other
\* row as it was; the rows of one run carry ranks 1..n in descending score
\* order; a run that fails leaves the table as it was.
C29_LatestRunOverwrites ==
    [][ (disc' # disc /\ ~disc'.saved => disc'.blogs = disc.blogs)
        /\ (disc' # disc /\ disc'.saved =>
          /\ \A d \in Domains :
                /\ Cardinality(BlogRows(disc'.blogs, d)) <= 1
                /\ d \in FetchedDomains(disc'.fetched) =>
                      \E r \in BlogRows(disc'.blogs, d) :
                         /\ r.score = TotalOf(disc'.csv, d)
                         /\ r.author = disc'.meta[d]
                         /\ r.rank \in 1..Len(disc'.fetched)
                /\ d \notin FetchedDomains(disc'.fetched) =>
                      BlogRows(disc'.blogs, d) = BlogRows(disc.blogs, d)
          /\ DenseDescending({r \in disc'.blogs :
                                r.domain \in FetchedDomains(disc'.fetched)})) ]_vars

\* A committed run whose download lists one domain twice and not the other, while
\* the other's row of an earlier run, with another author and the same rank, is
\* still in the table.
C29_Witness ==
    /\ disc.saved
    /\ \E d \in Domains :
          /\ Cardinality({i \in DOMAIN disc.csv : disc.csv[i].domain = d}) = 2
          /\ \E r \in disc.blogs : r.domain = d /\ r.score = TotalOf(disc.csv, d)
    /\ \E r \in disc.blogs :
          /\ r.domain \notin FetchedDomains(disc.fetched)
          /\ r.author # disc.meta[r.domain]
          /\ r.rank = 1
\* C30: what scrapeBlog got from parseFeed is at most maxArticles items, the
\* first ones of the feed in the feed's order; the blog's goroutine stores at
\* most maxArticles rows, none of an item behind the first maxArticles; and when
\* it returns nothing is left to store.
C30_AtMostMaxArticles ==
    /\ Len(feed.got) <= maxArticles
    /\ \A i \in 1..Len(feed.got) : feed.got[i] = FeedArticle(i)
    /\ \E k \in 0..Len(feed.got) : feed.todo = SubSeq(feed.got, k + 1, Len(feed.got))
    /\ Cardinality(TaggedRows) <= maxArticles
    /\ \A r \in TaggedRows : r.url \in 1..maxArticles
    /\ feed.state \in {"done", "failed"} => feed.todo = <<>>
    /\ feed.state = "done" /\ feed.before = {} =>
          Cardinality(TaggedRows)
             = Min(feed.tried[Len(feed.tried)].answer.n, maxArticles)

\* The first location answered a feed of maxArticles + 1 items into an empty
\* store, the goroutine has returned, and maxArticles articles are stored.
C30_Witness ==
    /\ feed.state = "done"
    /\ feed.tried[Len(feed.tried)].answer = [kind |-> "feed", n |-> maxArticles + 1]
    /\ feed.before = {}
    /\ Cardinality(articles) = maxArticles
    /\ \A r \in articles : r.url # maxArticles + 1
\* The lines the enrichment loops log when an item fails.
ItemFailureLines ==
    {"WARNING: score", "WARNING: summarize", "WARNING: retry summarize",
     "WARNING: save analysis", "WARNING: save retry analysis"}

\* C31: a pass of the scoring loop or of the retry sweep, whether it logs a
\* failure of ScoreArticle, of SummarizeArticle or of SaveArticleAnalysis or
\* none, takes the first item off the list and leaves the loop running on the
\* rest, and the loop is left only when the list is empty.
C31_FailureKeepsSiblings ==
    [][ (pc = "analyze" \/ pc = "retry") /\ now' = now =>
           (IF work # <<>>
            THEN /\ pc' = pc
                 /\ work' = Tail(work)
                 /\ log' \subseteq ItemFailureLines
            ELSE pc' # pc) ]_vars

\* The save of an item of the scoring loop has just failed with items still on
\* the list, after its summarization failed too, while another article waits
\* whose scoring failed.
C31_Witness ==
    /\ cmd = "run"
    /\ pc = "analyze"
    /\ "WARNING: save analysis" \in log
    /\ "WARNING: summarize" \in log
    /\ work # <<>>
    /\ scoreFailed # {}
\* Every unit of s is a newline.
AllNL(s) == \A i \in 1..Len(s) : s[i] = NL

\* The chunks are pieces of the text in its order, and what lies between two
\* pieces, or behind the last one, is newlines only.
RECURSIVE InOrder(_, _)
InOrder(t, c) ==
    IF c = <<>> THEN AllNL(t)
    ELSE LET n == Len(Head(c)) IN
         /\ n <= Len(t)
         /\ SubSeq(t, 1, n) = Head(c)
         /\ \E k \in 0..(Len(t) - n) :
               /\ AllNL(SubSeq(t, n + 1, n + k))
               /\ InOrder(SubSeq(t, n + k + 1, Len(t)), Tail(c))

\* Where a text longer than maxLen is to be cut: at the last paragraph break
\* that lies within its first maxLen units and not at its start, else at the
\* last such line break, else after maxLen units.
ExpectedCut(t, maxLen) ==
    LET para == {i \in 1..(maxLen - 2) : t[i + 1] = NL /\ t[i + 2] = NL}
        line == {i \in 1..(maxLen - 1) : t[i + 1] = NL}
    IN  IF para # {} THEN CHOOSE i \in para : \A j \in para : j <= i
        ELSE IF line # {} THEN CHOOSE i \in line : \A j \in line : j <= i
        ELSE maxLen

\* Every chunk but the last ends at the expected cut of what was left.
RECURSIVE CutsRight(_, _, _)
CutsRight(t, c, maxLen) ==
    IF Len(t) <= maxLen THEN c = IF t = <<>> THEN <<>> ELSE <<t>>
    ELSE /\ c # <<>>
         /\ Len(Head(c)) = ExpectedCut(t, maxLen)
         /\ CutsRight(TrimLeftNL(SubSeq(t, Len(Head(c)) + 1, Len(t))), Tail(c), maxLen)

\* What holds of the chunks of a text longer than maxLen, whatever their number.
ChunksWellFormed ==
    /\ \A k \in 1..Len(fn.out) : fn.out[k] # <<>> /\ Len(fn.out[k]) <= SplitLen
    /\ InOrder(fn.in, fn.out)
    /\ CutsRight(fn.in, fn.out, SplitLen)

C33_CleanedParses ==
    fn.name = "ChatCompletion" /\ fn.done =>
       /\ \A i \in 1..Len(fn.out) : fn.out[i] \notin Typographic \cup {FENCE}
       /\ Unmarshals(fn.out)
\* The units of s at the indices K, in their order.
KeepAt(s, K) ==
    [k \in 1..Cardinality(K) |->
        s[CHOOSE i \in K : Cardinality({j \in K : j < i}) = k - 1]]

\* Index i of s lies behind a '<' with no '>' from there up to i.
InsideTag(s, i) ==
    \E j \in 1..(i - 1) : s[j] = "<" /\ \A k \in (j + 1)..i : s[k] # ">"

\* Index i of s lies between a '<' and the next '>'.
BetweenBrackets(s, i) ==
    InsideTag(s, i) /\ \E k \in (i + 1)..Len(s) : s[k] = ">"

\* What truncate is to return for s.
Truncated(s) ==
    IF Len(s) <= SummaryLen THEN s
    ELSE [k \in 1..(SummaryLen + 3) |-> IF k <= SummaryLen THEN s[k] ELSE "."]

\* C34: stripTags returns its input without the angle brackets and the
\* characters between a '<' and the next '>', truncate returns its argument or
\* its first maxLen units and an ellipsis, and the summary has no angle
\* bracket and at most maxLen + 3 units.
C34_TagsRemoved ==
    fn.name = "stripTags" /\ fn.done =>
       /\ fn.out.stripped
             = KeepAt(fn.in, {i \in 1..Len(fn.in) :
                                /\ fn.in[i] \notin {"<", ">"}
                                /\ ~BetweenBrackets(fn.in, i)})
       /\ fn.out.summary = Truncated(fn.out.stripped)
       /\ \A k \in 1..Len(fn.out.summary) : fn.out.summary[k] \notin {"<", ">"}
       /\ Len(fn.out.summary) <= SummaryLen + 3

\* C34 (amended): stripTags removes the angle brackets and every character
\* behind a '<' up to the next '>' or, when none follows, to the end, and
\* trims the white space at both ends of what is left; the rest as above.
C34_TagsRemovedAndTrimmed ==
    fn.name = "stripTags" /\ fn.done =>
       /\ fn.out.stripped
             = TrimSpace(KeepAt(fn.in, {i \in 1..Len(fn.in) :
                                          /\ fn.in[i] \notin {"<", ">"}
                                          /\ ~InsideTag(fn.in, i)}))
       /\ fn.out.summary = Truncated(fn.out.stripped)
       /\ \A k \in 1..Len(fn.out.summary) : fn.out.summary[k] \notin {"<", ">"}
       /\ Len(fn.out.summary) <= SummaryLen + 3

\* A summary with a closed tag, white space at its start and text of more than
\* maxLen units was stripped, trimmed and truncated.
C34_Witness ==
    /\ fn.name = "stripTags"
    /\ fn.done
    /\ fn.in # <<>>
    /\ Head(fn.in) = SP
    /\ \E j, k \in 1..Len(fn.in) : j < k /\ fn.in[j] = "<" /\ fn.in[k] = ">"
    /\ Len(fn.out.stripped) > SummaryLen
    /\ Len(fn.out.summary) = SummaryLen + 3
\* The rows of table articles that hold the url both blogs publish.
SharedRows == {r \in articles : r.url = ItemURL(MaxItems)}
\* C35: while the goroutines of the two blogs save their articles in any
\* interleaving, no stored row is changed or removed and no save logs an error;
\* a save of the url both publish leaves exactly one row of it: its own item
\* tagged with its blog when it is the first, the row as it was when it is the
\* later one.
C35_FirstInsertWins ==
    [][ pc = "scrape" =>
          /\ articles \subseteq articles'
          /\ "WARN: save article" \notin log'
          /\ \A b \in Blogs :
                ( /\ workers[b] # <<>>
                  /\ workers'[b] = Tail(workers[b])
                  /\ Head(workers[b]).URL = ItemURL(MaxItems) )
                => /\ Cardinality(SharedRows') = 1
                   /\ SharedRows # {} => SharedRows' = SharedRows
                   /\ SharedRows = {} =>
                         \A r \in SharedRows' :
                            /\ r.blog_domain = b
                            /\ r.title = Head(workers[b]).Title ]_vars

\* Both goroutines of one cycle have saved their item of the shared url, the
\* first blog's insert ran first, and the one row is the first blog's.
C35_Witness ==
    /\ pc = "scrape"
    /\ workers["b.example"] = <<>>
    /\ workers["a.example"] = <<>>
    /\ Cardinality(articles) = MaxItems - 1
    /\ \E r \in SharedRows : r.blog_domain = "a.example" /\ r.title = 1
    /\ Cardinality(SharedRows) = 1
    /\ log = {}
\* C36: no article is in two digests whose Send succeeded, whether the
\* delivery stages run one after another or at the same time.
C36_OneDigestPerArticle == \A i \in Items : delivered[i] < 2
\* The ids of the rows whose notified_at a step changes.
Stamped == {r.article_id : r \in {x \in analysis :
                                     NotifiedAtOf(analysis', x.article_id) # x.notified_at}}

\* C37: the delivery stage of a cycle that sends its digest stamps exactly the
\* articles UnnotifiedAnalyses returned, which are the ones FormatReport put
\* in the digest and the ones counted as delivered; one that sends nothing
\* stamps none; and no step changes another field of a row or the set of rows.
C37_MarkedIsSelectedIsSent ==
    [][ pc = "notify" =>
          LET list == UnnotifiedAnalyses("7days").rows IN
          /\ (log' = {"notified"} =>
                /\ Stamped = IDsOf(list)
                /\ Stamped = IDsOf(FormatReport(list))
                /\ \A i \in Items :
                      delivered'[i] = delivered[i] + (IF i \in Stamped THEN 1 ELSE 0))
          /\ (log' # {"notified"} => Stamped = {} /\ delivered' = delivered)
          /\ {[r EXCEPT !.notified_at = NULL] : r \in analysis'}
                = {[r EXCEPT !.notified_at = NULL] : r \in analysis} ]_vars

\* A digest has gone out from a backlog of more than twenty articles: twenty
\* rows are stamped, among them those of the first articles, the others wait.
C37_Witness ==
    /\ pc = "idle"
    /\ log = {"notified"}
    /\ Cardinality(analysis) = MaxRows
    /\ Cardinality({r \in analysis : r.notified_at # NULL}) = FormatLimit
    /\ \A i \in Items : delivered[i] = 1
    /\ \E r \in analysis : r.notified_at = NULL
\* The articles of the digest whose Send failed last, while no other digest
\* has been made since.
FailedList ==
    IF flight["first"].at = "failed" THEN IDsOf(flight["first"].list) ELSE {}

\* What every step of a Send keeps to: the next chunk or none is transmitted,
\* success is reported by the step that transmits the last chunk, a refused
\* chunk ends the Send with nothing further transmitted, marked or counted,
\* and after the end nothing more of this digest is transmitted.
SendStepRules ==
    /\ (pc = "notify" /\ flight["first"].at = "send") =>
          /\ fn'.name = "Send" =>
                /\ fn'.in = fn.in
                /\ \/ fn'.out = fn.out
                   \/ /\ Len(fn.out) < Len(fn.in)
                      /\ fn'.out = Append(fn.out, fn.in[Len(fn.out) + 1])
          /\ log' = {"notified"} => Len(fn.out) + 1 = Len(fn.in)
          /\ "WARNING: telegram send" \in log' =>
                /\ fn'.done
                /\ fn'.out = fn.out
                /\ Len(fn.out) < Len(fn.in)
                /\ analysis' = analysis
                /\ delivered' = delivered
                /\ pc' = "idle"
    /\ (fn.done /\ fn' # fn) => (fn' = NoText \/ fn'.out = <<>>)

\* C38: Send transmits the chunks in order and reports success only when all
\* were accepted; the first refused chunk ends it, with the later ones unsent
\* and no article marked; and the next cycle selects every article of the
\* digest that failed again.
C38_FailedDigestSelectedAgain ==
    [][ /\ SendStepRules
        /\ (pc = "notify" /\ flight'["first"].at # "failed") =>
              FailedList \subseteq IDsOf(UnnotifiedAnalyses("7days").rows) ]_vars

\* C38 (amended): as above, but the next cycle selects again those articles of
\* the failed digest that are still inside its 7days window.
C38_FailedDigestSelectedInWindow ==
    [][ /\ SendStepRules
        /\ (pc = "notify" /\ flight'["first"].at # "failed") =>
              \A id \in FailedList :
                 id \in {a.id : a \in Joined(windowCutoff("7days").cutoff)}
                    => id \in IDsOf(UnnotifiedAnalyses("7days").rows) ]_vars

\* The first chunk of a digest of two articles went out and the second was
\* refused; the next cycle has reached its delivery stage, where one of the
\* two articles is selected again and the other has left the window.
C38_Witness ==
    /\ pc = "notify"
    /\ flight["first"].at = "failed"
    /\ fn.done
    /\ Len(fn.out) = 1
    /\ Len(fn.in) = 2
    /\ \E id \in FailedList : id \in IDsOf(UnnotifiedAnalyses("7days").rows)
    /\ \E id \in FailedList : id \notin IDsOf(UnnotifiedAnalyses("7days").rows)
    /\ \A r \in analysis : r.notified_at = NULL

\* C39 as stated: within one runPipeline cycle a newly scored article whose
\* summarization fails on every attempt gets exactly maxRetries Stage-B calls
\* in the new-item stage, is in the list the retry sweep of the same cycle
\* reads, and gets exactly maxRetries more calls there: 2 * maxRetries calls
\* before the select stage.
C39_TwiceMaxRetries ==
    [][ /\ ( /\ cmd = "run" /\ pc = "analyze"
             /\ work # <<>> /\ work' = Tail(work)
             /\ log' = {"WARNING: summarize"} )
           => sumCalls' = maxRetries
        /\ (cmd = "run" /\ pc = "analyze" /\ pc' = "retry")
           => \A r \in analysis :
                 ( /\ r.ai_summary = ""
                   /\ r.analyzed_at = FormatRFC3339(now) )
                 => r.article_id \in IDsOf(work')
        /\ ( /\ cmd = "run" /\ pc = "retry"
             /\ work # <<>> /\ work' = Tail(work)
             /\ log' = {"WARNING: retry summarize"} )
           => sumCalls' = maxRetries ]_vars

\* C40: eligibility for delivery does not depend on the Stage-B fields. A
\* scored article with an empty synopsis that is unmarked and inside the 7days
\* window is returned by UnnotifiedAnalyses; the step that delivers it marks
\* it; and a later step that fills in the synopsis of a marked article leaves
\* its notified_at and every delivery count as they were, so the article is
\* never selected again and is in at most one sent digest.
C40_EmptySynopsisDeliveredOnce ==
    /\ [](\A r \in analysis :
             ( /\ r.ai_summary = ""
               /\ r.notified_at = NULL
               /\ InWindow(r.article_id, "7days") )
             => r.article_id \in IDsOf(UnnotifiedAnalyses("7days").rows))
    /\ [][ \A r \in analysis :
              /\ ( /\ r.ai_summary = "" /\ r.notified_at = NULL
                   /\ delivered'[r.article_id] = delivered[r.article_id] + 1 )
                 => NotifiedAtOf(analysis', r.article_id) # NULL
              /\ ( /\ r.ai_summary = "" /\ r.notified_at # NULL
                   /\ \E q \in analysis' :
                         q.article_id = r.article_id /\ q.ai_summary # "" )
                 => /\ NotifiedAtOf(analysis', r.article_id) = r.notified_at
                    /\ delivered' = delivered ]_vars
    /\ [](\A r \in analysis :
             r.notified_at # NULL
             => /\ delivered[r.article_id] = 1
                /\ r.article_id \notin IDsOf(UnnotifiedAnalyses("7days").rows))

\* The retry sweep of a later cycle has just filled in the synopsis of the one
\* analysed article, which was delivered and marked while its synopsis was
\* empty.
C40_Witness ==
    /\ cmd = "run"
    /\ pc = "retry"
    /\ sumCalls >= 1
    /\ log = {}
    /\ \E r \in analysis :
          /\ analysis = {r}
          /\ r.ai_summary # ""
          /\ r.notified_at # NULL
          /\ r.analyzed_at < r.notified_at[1]
          /\ delivered[r.article_id] = 1
          /\ InWindow(r.article_id, "7days")

====
